---- MODULE Spec2Model ----
(***************************************************************************)
(* The storefront over its collections (customers, products, orders,      *)
(* order-status-history, categories) and the store-config global:         *)
(* checkout, registration, customer cancel and admin status update, the   *)
(* store-config cache, the offer functions, the pricing and availability  *)
(* policy, and the item counter of the categories.  A request is a        *)
(* process that moves from one awaited store operation to the next; the   *)
(* store operations of different requests interleave.                     *)
(*                                                                         *)
(* Amounts are integers counted in 1/PriceScale OMR; time is counted in    *)
(* milliseconds since the start of the run.  An absent (undefined) value   *)
(* of a request is the empty set, a present one the singleton of the       *)
(* value; an absent string is "".                                          *)
(***************************************************************************)
EXTENDS Integers, Sequences, FiniteSets, TLC

\* ---------------------------------------------------------------- bounds
MaxReq == 2
MaxClock == 2
PriceScale == 2
MaxCancel == 1
MaxPatch == 1
MaxOps == 2
MaxGet == 1
MaxCacheAges == 1
MaxWrites == 1
MaxProducts == 2

\* ------------------------------------------------------- program constants
LeadHours == 24
MsPerHour == 1000 * 3600
LeadMs == LeadHours * MsPerHour
CACHE_DURATION == 5 * 60 * 1000

\* ------------------------------------------------------------- optionals
None == {}
Some(x) == {x}
Has(o) == o # {}
The(o) == CHOOSE x \in o : TRUE

Reqs == 1..MaxReq

\* The cancel requests and the admin PATCH requests that can be in flight.
Cancels == 1..MaxCancel
Patches == 1..MaxPatch

\* The getStoreConfig calls that can be in flight.
Gets == 1..MaxGet

\* The products of the catalogue runs, and the categories they are filed under.
ProductSlots == 1..MaxProducts
CategoryIds == {"c1", "c2"}

\* ------------------------------------------------------ products collection
\* The product documents checkout reads by id (it never writes them).
\* p2 is on offer until the clock shows 1: 1 OMR off.
Products ==
  [p \in {"p1", "p2"} |->
     IF p = "p1" THEN [id |-> "p1", price |-> 3, isOnOffer |-> FALSE,
                       discountType |-> "", discountValue |-> None,
                       offerStartDate |-> None, offerEndDate |-> None]
                 ELSE [id |-> "p2", price |-> 5, isOnOffer |-> TRUE,
                       discountType |-> "fixed", discountValue |-> Some(1),
                       offerStartDate |-> None, offerEndDate |-> Some(1)]]

ProductIds == DOMAIN Products

\* Math.floor of an amount, in whole OMR.
Floor(amount) == amount \div PriceScale

\* ------------------------------------------------------- customers.phone
\* /^(\+968|968|0)?[79]\d{7}$/ over a number given as its digits; an empty
\* value skips the validation.
PhoneValid(p) ==
  \/ p = <<>>
  \/ \E k \in {0, 1, 3} :
       /\ Len(p) = k + 8
       /\ k = 1 => p[1] = 0
       /\ k = 3 => (p[1] = 9 /\ p[2] = 6 /\ p[3] = 8)
       /\ p[k + 1] \in {7, 9}
       /\ \A i \in 1..Len(p) : p[i] \in 0..9

\* ------------------------------------------------------- booking lead time
\* hoursDiff < 24, with hoursDiff = (bookingDate - now) / (1000 * 3600).
TooSoon(bookingDate, clock) == (bookingDate - clock) < LeadHours * MsPerHour

VARIABLES
  now,              \* the wall clock (Date.now())
  customers,        \* the customers collection: a sequence of documents, id = index
  orders,           \* the orders collection: a sequence of documents, id = index
  pc,               \* per request: where the handler is
  data,             \* per request: the parsed request body
  customer,         \* per request: the handler's `customer` local
  isNewCustomer,    \* per request: the handler's `isNewCustomer` local
  orderItems,       \* per request: the handler's `orderItems` local
  calculatedTotal,  \* per request: the handler's `calculatedTotal` local
  itemIdx,          \* per request: position of the `for (const item of items)` loop
  checkedAt,        \* per request: the handler's `now` local of the booking check
  order,            \* per request: the handler's `order` local (its id, 0: none)
  response,         \* per request: the response returned
  writes,           \* per request: the store writes it has performed (history)
  statusHistory,    \* the order-status-history collection: a sequence of entries
  cpc,              \* per cancel request: where the handler is
  cdata,            \* per cancel request: the parsed request body
  corder,           \* per cancel request: the handler's `order` local
  cresponse,        \* per cancel request: the response returned
  cwrites,          \* per cancel request: the store writes it has performed (history)
  ppc,              \* per PATCH request: where the handler is
  pdata,            \* per PATCH request: the parsed request body
  presponse,        \* per PATCH request: the response returned
  pwrites,          \* per PATCH request: the store writes it has performed (history)
  opCount,          \* cancel and PATCH requests received so far (history)
  statusUpdates,    \* per order id: admin status updates applied to it (history)
  storeConfig,      \* the store-config global as stored
  configCache,      \* store-config.ts: the module's `configCache` (null: empty)
  cacheTimestamp,   \* store-config.ts: the module's `cacheTimestamp`
  cacheFetchedAt,   \* the time the cached value was read from the store (history)
  gpc,              \* per getStoreConfig call: where it is
  gnow,             \* per getStoreConfig call: its `now` local
  gconfig,          \* per getStoreConfig call: its `config` local and when it was read
  gresult,          \* per getStoreConfig call: the value returned and where it came from
  gseen,            \* per getStoreConfig call: the stored taxRate when it began (history)
  gcleared,         \* per getStoreConfig call: the cache was cleared since its store read (history)
  rpc,              \* POST /api/store-config: where the handler is
  rresponse,        \* POST /api/store-config: the status returned
  offerItem,        \* the product the offer functions are applied to
  offerCall,        \* the last call of an offer function: its clock readings and result
  policyConfig,     \* the configuration the policy functions are given (none: undefined)
  policyCall,       \* the last call of a policy function: server and client result
  productCategory,  \* the products collection: per product the id of its category ("": no such product)
  itemCount,        \* the categories collection: per category its itemCount
  hookPc,           \* per category: where its afterChange hook is
  hookTotalDocs,    \* per category: the total its hook has counted
  regpc,            \* POST /api/customers/register: where the handler is
  regdata,          \* POST /api/customers/register: the parsed request body
  regresponse       \* POST /api/customers/register: the response returned

checkoutVars == <<pc, data, customer, isNewCustomer, orderItems, calculatedTotal,
                  itemIdx, checkedAt, order, response, writes>>

cancelVars == <<cpc, cdata, corder, cresponse, cwrites>>

patchVars == <<ppc, pdata, presponse, pwrites>>

orderOpVars == <<statusHistory, cancelVars, patchVars, opCount, statusUpdates>>

configVars == <<storeConfig, configCache, cacheTimestamp, cacheFetchedAt, gpc, gnow,
                gconfig, gresult, gseen, gcleared, rpc, rresponse>>

offerVars == <<offerItem, offerCall>>

policyVars == <<policyConfig, policyCall>>

catalogVars == <<productCategory, itemCount, hookPc, hookTotalDocs>>

registerVars == <<regpc, regdata, regresponse>>

vars == <<now, customers, orders, checkoutVars, orderOpVars, configVars, offerVars,
         policyVars, catalogVars, registerVars>>

\* ------------------------------------------------------------ request bodies
Item(id, name, quantity, price) ==
  [id |-> id, name |-> name, quantity |-> quantity, price |-> price]

CustomerInfo(email, password, firstName, phone) ==
  [email |-> email, password |-> password, firstName |-> firstName,
   lastName |-> "Lee", phone |-> phone]

Address(street, phone) ==
  [street |-> street, area |-> "Qurum", city |-> "Muscat", phone |-> phone]

Body(items, info, address, serviceType, bookingDate, totalAmount) ==
  [items |-> items, customerInfo |-> info, deliveryAddress |-> address,
   serviceType |-> serviceType, bookingDate |-> bookingDate,
   customerNotes |-> "ring twice", totalAmount |-> totalAmount]

NoBody == Body(None, None, None, "", None, 0)

GoodPhone == <<9, 1, 2, 3, 4, 5, 6, 7>>
BadPhone == <<1, 2, 3>>

CartA == <<Item("p1", "rice", 1, 3)>>
CartATampered == <<Item("p1", "rice", 1, 0)>>
CartB == <<Item("p2", "stew", 2, 5), Item("p1", "rice", 1, 3)>>
CartUnknown == <<Item("p1", "rice", 1, 3), Item("p9", "ghost", 1, 1)>>
CartNoId == <<Item("p1", "rice", 1, 3), Item("", "nameless", 1, 1)>>
CartZeroQty == <<Item("p1", "rice", 0, 3)>>

Emails == {"a@x.om", "b@x.om"}

\* The spellings of one address: plain, with a capital, with a leading blank.
EmailSpellings == {"a@x.om", "A@x.om", " a@x.om"}

\* String.prototype.toLowerCase on the emails above.
toLowerCase(s) == IF s = "A@x.om" THEN "a@x.om" ELSE s

\* String.prototype.trim on the emails above.
trim(s) == IF s = " a@x.om" THEN "a@x.om" ELSE s

\* How the customers collection keeps the email of a document to create:
\* as it was given or lower-cased; one with a surrounding blank may also be
\* rejected (none).
EmailOutcomes(email) ==
  {Some(email), Some(toLowerCase(email))}
    \cup (IF trim(email) # email THEN {None} ELSE {})

\* A booking exactly 24h after time 0, and one 24h after the last clock value.
ExactDate == LeadMs
FarDate == LeadMs + MaxClock

\* Requests every part of which is acceptable; only the booking date may be
\* too close by the time it is looked at.
ValidBodies ==
  { Body(Some(c[1]), Some(CustomerInfo(e, "pw1", "Ann", GoodPhone)), a[1], a[2],
         Some(d), c[2]) :
      c \in {<<CartA, 3>>, <<CartATampered, 0>>, <<CartB, 13>>},
      e \in Emails,
      a \in {<<None, "pickup">>, <<Some(Address("12 Palm St", GoodPhone)), "delivery">>},
      d \in {ExactDate, FarDate} }

BaseInfo == CustomerInfo("a@x.om", "pw1", "Ann", GoodPhone)

\* One deviation each from a valid pickup request.
DeviantBodies ==
  { Body(None, Some(BaseInfo), None, "pickup", Some(FarDate), 3),
    Body(Some(<<>>), Some(BaseInfo), None, "pickup", Some(FarDate), 3),
    Body(Some(CartUnknown), Some(BaseInfo), None, "pickup", Some(FarDate), 3),
    Body(Some(CartNoId), Some(BaseInfo), None, "pickup", Some(FarDate), 3),
    Body(Some(CartZeroQty), Some(BaseInfo), None, "pickup", Some(FarDate), 3),
    Body(Some(CartA), None, None, "pickup", Some(FarDate), 3),
    Body(Some(CartA), Some(CustomerInfo("a@x.om", "pw1", "", GoodPhone)), None,
         "pickup", Some(FarDate), 3),
    Body(Some(CartA), Some(CustomerInfo("a@x.om", "pw1", "Ann", <<>>)), None,
         "pickup", Some(FarDate), 3),
    Body(Some(CartA), Some(CustomerInfo("a@x.om", "pw1", "Ann", BadPhone)), None,
         "pickup", Some(FarDate), 3),
    Body(Some(CartA), Some(CustomerInfo("a@x.om", "", "Ann", GoodPhone)), None,
         "pickup", Some(FarDate), 3),
    Body(Some(CartA), Some(CustomerInfo("a@x.om", "pw2", "Bea", GoodPhone)), None,
         "pickup", Some(FarDate), 3),
    Body(Some(CartA), Some(BaseInfo), None, "pickup", None, 3),
    Body(Some(CartA), Some(BaseInfo), None, "", Some(FarDate), 3),
    Body(Some(CartA), Some(BaseInfo), None, "delivery", Some(FarDate), 3),
    Body(Some(CartA), Some(BaseInfo), Some(Address("", GoodPhone)), "delivery",
         Some(FarDate), 3),
    Body(Some(CartA), Some(CustomerInfo("a@x.om", "pw1", "Ann", <<>>)),
         Some(Address("12 Palm St", <<>>)), "delivery", Some(FarDate), 3),
    Body(Some(CartA), Some(BaseInfo), Some(Address("7 Dune Rd", GoodPhone)), "pickup",
         Some(FarDate), 3) }

Bodies == ValidBodies \cup DeviantBodies

\* The requests of the concurrent runs: the same customer, two carts.
RacingBodies ==
  { Body(Some(c), Some(BaseInfo), None, "pickup", Some(FarDate), 0) : c \in {CartA, CartB} }

\* The checkouts of the account runs: one cart, the email in each spelling.
AccountBodies ==
  { Body(Some(CartA), Some(CustomerInfo(e, "pw1", "Ann", GoodPhone)), None, "pickup",
         Some(FarDate), 3) : e \in EmailSpellings }

\* The body of POST /api/customers/register.
RegisterBody(email, password) ==
  [email |-> email, password |-> password, firstName |-> "Ann", lastName |-> "Lee",
   phone |-> GoodPhone]

NoRegisterBody == RegisterBody("", "")

\* The registrations: the email in each spelling, and one without a password.
RegisterBodies ==
  {RegisterBody(e, "pw1") : e \in EmailSpellings} \cup {RegisterBody("a@x.om", "")}

\* ------------------------------------------- cancel and PATCH request bodies
OrderStatuses ==
  {"pending", "confirmed", "preparing", "ready-for-pickup", "out-for-delivery",
   "completed", "cancelled"}

\* The options of the status field of an order-status-history entry.
HistoryStatuses ==
  {"pending", "confirmed", "preparing", "out-for-delivery", "completed", "cancelled"}

CancelBody(orderNumber, customerId, reason) ==
  [orderNumber |-> orderNumber, customerId |-> customerId, reason |-> reason]

NoCancelBody == CancelBody(None, None, "")

PatchBody(orderId, status, adminNotes) ==
  [orderId |-> orderId, status |-> status, adminNotes |-> adminNotes]

NoPatchBody == PatchBody(None, "", "")

NoOpResponse == [status |-> 0, error |-> ""]

\* The optional fields of an order that checkout leaves unset.
UnsetAdminFields == [adminNotes |-> "", actualDeliveryTime |-> None]

\* Two customers after one checkout each: the first at time 0 for a pickup
\* 24h after the last clock value, the second at time 1, without notes, for
\* a pickup exactly 24h later.
SeedCustomers ==
  << [id |-> 1, email |-> "a@x.om", password |-> "pw1", firstName |-> "Ann",
      lastName |-> "Lee", phone |-> GoodPhone, isActive |-> TRUE,
      defaultAddress |-> None, totalOrders |-> 1, totalSpent |-> 3,
      loyaltyPoints |-> Floor(3), lastOrderDate |-> Some(0)],
     [id |-> 2, email |-> "b@x.om", password |-> "pw1", firstName |-> "Ann",
      lastName |-> "Lee", phone |-> GoodPhone, isActive |-> TRUE,
      defaultAddress |-> None, totalOrders |-> 1, totalSpent |-> 3,
      loyaltyPoints |-> Floor(3), lastOrderDate |-> Some(1)] >>

SeedOrder(id, clock, bookingDate, customerNotes) ==
  [orderNumber |-> clock,
   customer |-> id,
   items |-> <<[foodItem |-> "p1", quantity |-> 1, price |-> 3, subtotal |-> 3]>>,
   totalAmount |-> 3,
   status |-> "pending",
   bookingDate |-> bookingDate,
   customerNotes |-> customerNotes,
   serviceType |-> "pickup",
   paymentStatus |-> "pending",
   deliveryAddress |-> None,
   createdAt |-> clock] @@ UnsetAdminFields

NearDate == LeadMs + 1

SeedOrders ==
  << SeedOrder(1, 0, FarDate, "ring twice"), SeedOrder(2, 1, NearDate, "") >>

\* An orderNumber and an order id that no order has.
NoSuchOrder == 9

CancelBodies ==
  { CancelBody(Some(0), Some(1), "late"),
    CancelBody(Some(0), Some(1), ""),
    CancelBody(Some(1), Some(2), "late"),
    CancelBody(Some(0), Some(2), "late"),
    CancelBody(Some(NoSuchOrder), Some(1), ""),
    CancelBody(None, Some(1), ""),
    CancelBody(Some(0), None, "") }

PatchBodies ==
  { PatchBody(Some(1), st, "") : st \in OrderStatuses } \cup
  { PatchBody(Some(1), "confirmed", "call first"),
    PatchBody(Some(2), "confirmed", ""),
    PatchBody(Some(NoSuchOrder), "confirmed", ""),
    PatchBody(None, "confirmed", ""),
    PatchBody(Some(1), "", ""),
    PatchBody(Some(1), "shipped", "") }

\* ------------------------------------------------------------------ state
NoResponse ==
  [status |-> 0, error |-> "", item |-> "", order |-> 0, authToken |-> FALSE,
   isNewCustomer |-> FALSE]

\* No checkout request has arrived.
CheckoutIdle ==
  /\ pc = [r \in Reqs |-> "idle"]
  /\ data = [r \in Reqs |-> NoBody]
  /\ customer = [r \in Reqs |-> None]
  /\ isNewCustomer = [r \in Reqs |-> FALSE]
  /\ orderItems = [r \in Reqs |-> <<>>]
  /\ calculatedTotal = [r \in Reqs |-> 0]
  /\ itemIdx = [r \in Reqs |-> 1]
  /\ checkedAt = [r \in Reqs |-> None]
  /\ order = [r \in Reqs |-> 0]
  /\ response = [r \in Reqs |-> NoResponse]
  /\ writes = [r \in Reqs |-> {}]

\* No cancel and no PATCH request has arrived; the history is empty.
OrderOpsIdle ==
  /\ statusHistory = <<>>
  /\ cpc = [c \in Cancels |-> "idle"]
  /\ cdata = [c \in Cancels |-> NoCancelBody]
  /\ corder = [c \in Cancels |-> None]
  /\ cresponse = [c \in Cancels |-> NoOpResponse]
  /\ cwrites = [c \in Cancels |-> {}]
  /\ ppc = [p \in Patches |-> "idle"]
  /\ pdata = [p \in Patches |-> NoPatchBody]
  /\ presponse = [p \in Patches |-> NoOpResponse]
  /\ pwrites = [p \in Patches |-> {}]
  /\ opCount = 0

\* defaultConfig, by the fields followed here.
defaultConfig ==
  [storeName |-> "FlavorForge", taxRate |-> 0, minOrderAmount |-> 5,
   serviceOptions |-> [enableDelivery |-> TRUE, enablePickup |-> TRUE,
                       deliveryFee |-> 1, freeDeliveryThreshold |-> 50],
   operatingHours |-> [openTime |-> <<0, 9, 10, 0, 0>>, closeTime |-> <<2, 2, 10, 0, 0>>,
                       closedDays |-> {}]]

\* The global as the store holds it after the n-th admin write: the admin
\* has named the store and set the tax rate; minOrderAmount was never set.
StoredConfig(n) == [storeName |-> "Circle Kitchen", taxRate |-> n]

NoResult == [config |-> None, from |-> ""]

\* The cache is empty and no getStoreConfig call has begun.
ConfigIdle ==
  /\ storeConfig = StoredConfig(0)
  /\ configCache = None
  /\ cacheTimestamp = 0
  /\ cacheFetchedAt = 0
  /\ gpc = [g \in Gets |-> "idle"]
  /\ gnow = [g \in Gets |-> 0]
  /\ gconfig = [g \in Gets |-> None]
  /\ gresult = [g \in Gets |-> NoResult]
  /\ gseen = [g \in Gets |-> 0]
  /\ gcleared = [g \in Gets |-> FALSE]
  /\ rpc = "idle"
  /\ rresponse = 0

\* A product as the offer functions read it.  Its price is counted in
\* 1/OfferUnit OMR, so that price * discountValue / 100 is a whole number;
\* discountValue is the number stored (a percentage, or OMR for a fixed
\* discount); the offer dates are clock values.
FoodItem(price, isOnOffer, discountType, discountValue, offerStartDate, offerEndDate) ==
  [price |-> price, isOnOffer |-> isOnOffer, discountType |-> discountType,
   discountValue |-> discountValue, offerStartDate |-> offerStartDate,
   offerEndDate |-> offerEndDate]

OfferUnit == 100 * PriceScale

PlainItem == FoodItem(3 * OfferUnit, FALSE, "", None, None, None)

NoCall == [fn |-> "", at |-> <<>>, result |-> 0]

\* No offer function has been called.
OfferIdle ==
  /\ offerItem = PlainItem
  /\ offerCall = NoCall

NoPolicyCall == [fn |-> "", args |-> <<>>, server |-> 0, client |-> 0]

\* No policy function has been called; none was given a configuration.
PolicyIdle ==
  /\ policyConfig = None
  /\ policyCall = NoPolicyCall

\* No product exists; each category has the itemCount it was created with
\* (defaultValue 0) and no hook of it is running.
CatalogIdle ==
  /\ productCategory = [p \in ProductSlots |-> ""]
  /\ itemCount = [c \in CategoryIds |-> 0]
  /\ hookPc = [c \in CategoryIds |-> "idle"]
  /\ hookTotalDocs = [c \in CategoryIds |-> 0]

\* No registration has arrived.
RegisterIdle ==
  /\ regpc = "idle"
  /\ regdata = NoRegisterBody
  /\ regresponse = NoOpResponse

Init ==
  /\ now = 0
  /\ customers = <<>>
  /\ orders = <<>>
  /\ statusUpdates = <<>>
  /\ CheckoutIdle
  /\ OrderOpsIdle
  /\ ConfigIdle
  /\ OfferIdle
  /\ PolicyIdle
  /\ CatalogIdle
  /\ RegisterIdle

\* The handler returns: NextResponse.json(..., {status}).  Its locals die with it.
Return(r, status, error, item) ==
  /\ pc' = [pc EXCEPT ![r] = "done"]
  /\ response' = [response EXCEPT ![r] =
        [status |-> status, error |-> error, item |-> item, order |-> 0,
         authToken |-> FALSE, isNewCustomer |-> FALSE]]
  /\ customer' = [customer EXCEPT ![r] = None]
  /\ isNewCustomer' = [isNewCustomer EXCEPT ![r] = FALSE]
  /\ orderItems' = [orderItems EXCEPT ![r] = <<>>]
  /\ calculatedTotal' = [calculatedTotal EXCEPT ![r] = 0]
  /\ itemIdx' = [itemIdx EXCEPT ![r] = 1]

\* new Date() / Date.now(): the clock is read; it shows the last reading or
\* a later time.
ReadClock(t) ==
  /\ t \in now..MaxClock
  /\ now' = t

\* ------------------------------------------------------- POST /api/checkout
\* The body is parsed and its required fields are looked at.
Receive(r, body) ==
  /\ pc[r] = "idle"
  /\ data' = [data EXCEPT ![r] = body]
  /\ IF \/ ~Has(body.items) \/ ~Has(body.customerInfo)
        \/ ~Has(body.bookingDate) \/ body.serviceType = ""
     THEN Return(r, 400, "Missing required checkout information", "")
     ELSE IF /\ body.serviceType = "delivery"
             /\ \/ ~Has(body.deliveryAddress)
                \/ The(body.deliveryAddress).street = ""
                \/ The(body.deliveryAddress).area = ""
     THEN Return(r, 400, "Missing required delivery address information", "")
     ELSE /\ pc' = [pc EXCEPT ![r] = "findCustomer"]
          /\ UNCHANGED <<customer, isNewCustomer, orderItems, calculatedTotal,
                         itemIdx, response>>
  /\ UNCHANGED <<now, customers, orders, checkedAt, order, writes>>

\* payload.find on customers, where email equals customerInfo.email.
FindCustomer(r) ==
  /\ pc[r] = "findCustomer"
  /\ LET info == The(data[r].customerInfo)
         docs == {i \in DOMAIN customers : customers[i].email = info.email}
     IN  IF docs # {}
         THEN /\ customer' = [customer EXCEPT ![r] =
                     Some(customers[CHOOSE i \in docs : \A j \in docs : i <= j])]
              /\ pc' = [pc EXCEPT ![r] = "updateCustomer"]
              /\ UNCHANGED <<isNewCustomer, orderItems, calculatedTotal, itemIdx,
                             response>>
         ELSE IF info.password = ""
         THEN Return(r, 400, "Password is required for new customers", "")
         ELSE /\ pc' = [pc EXCEPT ![r] = "createCustomer"]
              /\ UNCHANGED <<customer, isNewCustomer, orderItems, calculatedTotal,
                             itemIdx, response>>
  /\ UNCHANGED <<now, customers, orders, data, checkedAt, order, writes>>

\* The defaultAddress the handler builds when serviceType is delivery and an
\* address was sent (the customers collection keeps street, area and city).
AddressUpdate(body) ==
  IF body.serviceType = "delivery" /\ Has(body.deliveryAddress)
  THEN Some([street |-> The(body.deliveryAddress).street,
             area |-> The(body.deliveryAddress).area,
             city |-> The(body.deliveryAddress).city])
  ELSE None

\* A value sent replaces the stored one; an absent one leaves it.
Patch(stored, sent) == IF sent = "" THEN stored ELSE sent

\* payload.update of the customer found: the contact fields and, for a
\* delivery, the default address.  The updated document is what `customer`
\* holds from here on.
UpdateCustomer(r) ==
  /\ pc[r] = "updateCustomer"
  /\ LET info == The(data[r].customerInfo)
         id == The(customer[r]).id
         addr == AddressUpdate(data[r])
         doc == [customers[id] EXCEPT
                   !.firstName = Patch(@, info.firstName),
                   !.lastName = Patch(@, info.lastName),
                   !.phone = IF info.phone = <<>> THEN @ ELSE info.phone,
                   !.defaultAddress = IF Has(addr) THEN addr ELSE @]
     IN  IF ~PhoneValid(info.phone)
         THEN /\ Return(r, 500, "Failed to process customer information", "")
              /\ UNCHANGED <<customers, writes>>
         ELSE /\ customers' = [customers EXCEPT ![id] = doc]
              /\ customer' = [customer EXCEPT ![r] = Some(doc)]
              /\ writes' = [writes EXCEPT ![r] = @ \cup {"customers.update"}]
              /\ pc' = [pc EXCEPT ![r] = "items"]
              /\ UNCHANGED <<isNewCustomer, orderItems, calculatedTotal, itemIdx,
                             response>>
  /\ UNCHANGED <<now, orders, data, checkedAt, order>>

\* payload.create of a customer: the email is unique in the form the
\* collection keeps it, firstName and lastName are required, the phone is
\* validated, the aggregates default to 0.
CreateCustomer(r) ==
  /\ pc[r] = "createCustomer"
  /\ \E kept \in EmailOutcomes(The(data[r].customerInfo).email) :
       LET info == The(data[r].customerInfo)
           doc == [id |-> Len(customers) + 1,
                   email |-> IF Has(kept) THEN The(kept) ELSE info.email,
                   password |-> info.password,
                   firstName |-> info.firstName,
                   lastName |-> info.lastName,
                   phone |-> info.phone,
                   isActive |-> TRUE,
                   defaultAddress |-> AddressUpdate(data[r]),
                   totalOrders |-> 0,
                   totalSpent |-> 0,
                   loyaltyPoints |-> 0,
                   lastOrderDate |-> None]
       IN  IF \/ ~Has(kept)
              \/ \E i \in DOMAIN customers : customers[i].email = doc.email
              \/ info.firstName = "" \/ info.lastName = ""
              \/ ~PhoneValid(info.phone)
           THEN /\ Return(r, 500, "Failed to process customer information", "")
                /\ UNCHANGED <<customers, writes>>
           ELSE /\ customers' = Append(customers, doc)
                /\ customer' = [customer EXCEPT ![r] = Some(doc)]
                /\ isNewCustomer' = [isNewCustomer EXCEPT ![r] = TRUE]
                /\ writes' = [writes EXCEPT ![r] = @ \cup {"customers.create"}]
                /\ pc' = [pc EXCEPT ![r] = "items"]
                /\ UNCHANGED <<orderItems, calculatedTotal, itemIdx, response>>
  /\ UNCHANGED <<now, orders, data, checkedAt, order>>

\* (mutant) the line priced with the fixed discount of the product taken off
OrderLineOfferPrice(item, foodItem) ==
  LET price == IF foodItem.isOnOffer /\ Has(foodItem.discountValue)
               THEN foodItem.price - The(foodItem.discountValue) * PriceScale
               ELSE foodItem.price
  IN  [foodItem |-> foodItem.id,
       quantity |-> item.quantity,
       price |-> price,
       subtotal |-> price * item.quantity]

\* (mutant) the line priced at what the cart claims
OrderLineCartPrice(item, foodItem) ==
  [foodItem |-> foodItem.id,
   quantity |-> item.quantity,
   price |-> item.price,
   subtotal |-> item.price * item.quantity]

\* One order line: the unit price is the product document's, not the cart's.
OrderLine(item, foodItem) ==
  [foodItem |-> foodItem.id,
   quantity |-> item.quantity,
   price |-> foodItem.price,
   subtotal |-> foodItem.price * item.quantity]

\* One turn of `for (const item of items)`: payload.findByID on products.
\* For an id with no document the store either resolves to nothing (the
\* handler answers 400) or rejects (the handler's catch answers 500).
FetchItem(r) ==
  /\ pc[r] = "items"
  /\ itemIdx[r] <= Len(The(data[r].items))
  /\ LET item == The(data[r].items)[itemIdx[r]]
     IN  IF item.id = ""
         THEN Return(r, 400, "Item missing ID", item.name)
         ELSE IF item.id \notin ProductIds
         THEN \/ Return(r, 400, "Food item not found", item.id)
              \/ Return(r, 500, "Failed to process item", item.name)
         ELSE /\ orderItems' = [orderItems EXCEPT ![r] =
                     Append(@, OrderLine(item, Products[item.id]))]
              /\ calculatedTotal' = [calculatedTotal EXCEPT ![r] =
                     @ + OrderLine(item, Products[item.id]).subtotal]
              /\ itemIdx' = [itemIdx EXCEPT ![r] = @ + 1]
              /\ UNCHANGED <<pc, customer, isNewCustomer, response>>
  /\ UNCHANGED <<now, customers, orders, data, checkedAt, order, writes>>

\* After the loop: the booking date against the handler's own clock reading.
CheckBooking(r) ==
  /\ pc[r] = "items"
  /\ itemIdx[r] > Len(The(data[r].items))
  /\ \E t \in 0..MaxClock :
       /\ ReadClock(t)
       /\ checkedAt' = [checkedAt EXCEPT ![r] = Some(t)]
       /\ IF TooSoon(The(data[r].bookingDate), t)
          THEN Return(r, 400, "Booking must be at least 24 hours in advance", "")
          ELSE /\ pc' = [pc EXCEPT ![r] = "createOrder"]
               /\ UNCHANGED <<customer, isNewCustomer, orderItems, calculatedTotal,
                              itemIdx, response>>
  /\ UNCHANGED <<customers, orders, data, order, writes>>

\* (mutant) the order keeps whatever address was sent, for a pickup too
OrderAddressWhenSent(body) ==
  IF Has(body.deliveryAddress)
  THEN LET a == The(body.deliveryAddress)
       IN  Some([street |-> a.street, area |-> a.area, city |-> a.city,
                 phone |-> IF a.phone # <<>> THEN a.phone
                                             ELSE The(body.customerInfo).phone])
  ELSE None

\* The deliveryAddress of orderData: only for a delivery with an address.
OrderAddress(body) ==
  IF body.serviceType = "delivery" /\ Has(body.deliveryAddress)
  THEN LET a == The(body.deliveryAddress)
       IN  Some([street |-> a.street, area |-> a.area, city |-> a.city,
                 phone |-> IF a.phone # <<>> THEN a.phone
                                             ELSE The(body.customerInfo).phone])
  ELSE None

\* (mutant) the order's total taken from the request body
OrderDataClientTotal(r, clock) ==
  [orderNumber |-> clock,
   customer |-> The(customer[r]).id,
   items |-> orderItems[r],
   totalAmount |-> data[r].totalAmount,
   status |-> "pending",
   bookingDate |-> The(data[r].bookingDate),
   customerNotes |-> data[r].customerNotes,
   serviceType |-> data[r].serviceType,
   paymentStatus |-> "pending",
   deliveryAddress |-> OrderAddress(data[r]),
   createdAt |-> clock]

\* orderData as the handler builds it; the orders collection adds the
\* orderNumber (ORD-<Date.now()>, kept here as the timestamp).
OrderData(r, clock) ==
  [orderNumber |-> clock,
   customer |-> The(customer[r]).id,
   items |-> orderItems[r],
   totalAmount |-> calculatedTotal[r],
   status |-> "pending",
   bookingDate |-> The(data[r].bookingDate),
   customerNotes |-> data[r].customerNotes,
   serviceType |-> data[r].serviceType,
   paymentStatus |-> "pending",
   deliveryAddress |-> OrderAddress(data[r]),
   createdAt |-> clock]

\* Orders.fields.bookingDate.validate, run by the store with its own clock.
BookingDateValid(value, clock) == ~TooSoon(value, clock)

\* The validation the orders collection runs on a document to create.
OrderValid(doc, clock) ==
  /\ \A i \in DOMAIN orders : orders[i].orderNumber # doc.orderNumber
  /\ Len(doc.items) >= 1
  /\ \A i \in DOMAIN doc.items : doc.items[i].quantity >= 1
  /\ doc.serviceType \in {"delivery", "pickup"}
  /\ BookingDateValid(doc.bookingDate, clock)
  /\ doc.serviceType = "delivery" =>
        /\ Has(doc.deliveryAddress)
        /\ The(doc.deliveryAddress).street # ""
        /\ The(doc.deliveryAddress).area # ""
        /\ The(doc.deliveryAddress).city # ""
        /\ The(doc.deliveryAddress).phone # <<>>

\* payload.create of the order; a rejected document lands in the handler's
\* catch (orderError).
CreateOrder(r) ==
  /\ pc[r] = "createOrder"
  /\ \E t \in 0..MaxClock :
       /\ ReadClock(t)
       /\ LET doc == OrderData(r, t)
          IN  IF ~OrderValid(doc, t)
              THEN /\ Return(r, 500, "Failed to create order", "")
                   /\ UNCHANGED <<orders, order, writes>>
              ELSE /\ orders' = Append(orders, doc)
                   /\ order' = [order EXCEPT ![r] = Len(orders) + 1]
                   /\ writes' = [writes EXCEPT ![r] = @ \cup {"orders.create"}]
                   /\ pc' = [pc EXCEPT ![r] = "updateStats"]
                   /\ UNCHANGED <<customer, isNewCustomer, orderItems,
                                  calculatedTotal, itemIdx, response>>
  /\ UNCHANGED <<customers, data, checkedAt>>

\* (mutant) one loyalty point per unit of the amount, not per whole OMR
StatisticsNoFloor(r, clock) ==
  [totalOrders |-> The(customer[r]).totalOrders + 1,
   totalSpent |-> The(customer[r]).totalSpent + calculatedTotal[r],
   lastOrderDate |-> Some(clock),
   loyaltyPoints |-> The(customer[r]).loyaltyPoints + calculatedTotal[r]]

\* The aggregates the handler writes: computed from its `customer` local.
Statistics(r, clock) ==
  [totalOrders |-> The(customer[r]).totalOrders + 1,
   totalSpent |-> The(customer[r]).totalSpent + calculatedTotal[r],
   lastOrderDate |-> Some(clock),
   loyaltyPoints |-> The(customer[r]).loyaltyPoints + Floor(calculatedTotal[r])]

\* (mutant) the statistics added to the stored document, not the local one
StoreStatisticsIncrement(r, doc, st) ==
  [doc EXCEPT !.totalOrders = @ + 1,
              !.totalSpent = @ + calculatedTotal[r],
              !.lastOrderDate = st.lastOrderDate,
              !.loyaltyPoints = @ + Floor(calculatedTotal[r])]

\* The stored customer document after the statistics update of request r:
\* the four fields are overwritten with the values the handler computed.
StoreStatistics(r, doc, st) ==
  [doc EXCEPT !.totalOrders = st.totalOrders,
              !.totalSpent = st.totalSpent,
              !.lastOrderDate = st.lastOrderDate,
              !.loyaltyPoints = st.loyaltyPoints]

\* payload.update of the customer's statistics, in the same try block as the
\* order's creation: when the store rejects it the catch (orderError) answers.
UpdateStats(r) ==
  /\ pc[r] = "updateStats"
  /\ \/ \E t \in 0..MaxClock :
          LET id == The(customer[r]).id
              st == Statistics(r, t)
          IN  /\ ReadClock(t)
              /\ customers' = [customers EXCEPT ![id] = StoreStatistics(r, @, st)]
              /\ writes' = [writes EXCEPT ![r] = @ \cup {"customers.statistics"}]
              /\ pc' = [pc EXCEPT ![r] = "login"]
              /\ UNCHANGED <<customer, isNewCustomer, orderItems, calculatedTotal,
                             itemIdx, response>>
     \/ /\ Return(r, 500, "Failed to create order", "")
        /\ UNCHANGED <<now, customers, writes>>
  /\ UNCHANGED <<orders, data, checkedAt, order>>

\* (mutant) a token for any password, as long as the email is known
LoginTokenAnyPassword(email, password) ==
  \E i \in DOMAIN customers : customers[i].email = email

\* payload.login with the customer's email and the password sent: a token
\* when they match the stored credentials, else the inner catch leaves null.
LoginToken(email, password) ==
  \E i \in DOMAIN customers :
    customers[i].email = email /\ password # "" /\ customers[i].password = password

\* The token is requested and the success response is returned.
Login(r) ==
  /\ pc[r] = "login"
  /\ pc' = [pc EXCEPT ![r] = "done"]
  /\ response' = [response EXCEPT ![r] =
        [status |-> 200, error |-> "", item |-> "", order |-> order[r],
         authToken |-> LoginToken(The(customer[r]).email,
                                  The(data[r].customerInfo).password),
         isNewCustomer |-> isNewCustomer[r]]]
  /\ customer' = [customer EXCEPT ![r] = None]
  /\ isNewCustomer' = [isNewCustomer EXCEPT ![r] = FALSE]
  /\ orderItems' = [orderItems EXCEPT ![r] = <<>>]
  /\ calculatedTotal' = [calculatedTotal EXCEPT ![r] = 0]
  /\ itemIdx' = [itemIdx EXCEPT ![r] = 1]
  /\ UNCHANGED <<now, customers, orders, data, checkedAt, order, writes>>

\* One step of the handler of request r.
Step(r) ==
  \/ FindCustomer(r)
  \/ UpdateCustomer(r)
  \/ CreateCustomer(r)
  \/ FetchItem(r)
  \/ CheckBooking(r)
  \/ CreateOrder(r)
  \/ UpdateStats(r)
  \/ Login(r)

InFlight(r) == pc[r] \notin {"idle", "done"}

\* Requests arrive in the order of their numbers.
Arrives(r) == \A q \in Reqs : q < r => pc[q] # "idle"

\* Concurrent checkouts of one customer.
Next ==
  \/ /\ \E r \in Reqs : \E body \in RacingBodies : Arrives(r) /\ Receive(r, body)
     /\ UNCHANGED <<orderOpVars, configVars, offerVars, policyVars,
                    catalogVars, registerVars>>
  \/ /\ \E r \in Reqs : Step(r)
     /\ UNCHANGED <<orderOpVars, configVars, offerVars, policyVars,
                    catalogVars, registerVars>>

Spec == Init /\ [][Next]_vars

\* Checkouts one after another, any body.
NextSeq ==
  \/ /\ \E r \in Reqs : \E body \in Bodies :
          /\ Arrives(r)
          /\ \A q \in Reqs : ~InFlight(q)
          /\ Receive(r, body)
     /\ UNCHANGED <<orderOpVars, configVars, offerVars, policyVars,
                    catalogVars, registerVars>>
  \/ /\ \E r \in Reqs : Step(r)
     /\ UNCHANGED <<orderOpVars, configVars, offerVars, policyVars,
                    catalogVars, registerVars>>

SpecSeq == Init /\ [][NextSeq]_vars

\* ------------------------------------------- POST /api/customers/register
\* The register handler returns.
RegisterReturn(status, error) ==
  /\ regpc' = "done"
  /\ regresponse' = [status |-> status, error |-> error]

\* The body is parsed; every field is required.
RegisterReceive(body) ==
  /\ regpc \in {"idle", "done"}
  /\ regdata' = body
  /\ IF \/ body.email = "" \/ body.password = "" \/ body.firstName = ""
        \/ body.lastName = "" \/ body.phone = <<>>
     THEN RegisterReturn(400, "All required fields must be provided")
     ELSE /\ regpc' = "find"
          /\ regresponse' = NoOpResponse
  /\ UNCHANGED <<now, customers, orders, checkoutVars>>

\* payload.find on customers, where email equals email.toLowerCase().trim().
RegisterFind ==
  /\ regpc = "find"
  /\ IF \E i \in DOMAIN customers : customers[i].email = trim(toLowerCase(regdata.email))
     THEN RegisterReturn(409, "An account with this email already exists")
     ELSE /\ regpc' = "create"
          /\ UNCHANGED regresponse
  /\ UNCHANGED <<now, customers, orders, checkoutVars, regdata>>

\* payload.create of the customer under the lower-cased, trimmed email; a
\* rejected document lands in the handler's catch, which answers 409 when
\* the message names a duplicate and 500 otherwise.
RegisterCreate ==
  /\ regpc = "create"
  /\ LET email == trim(toLowerCase(regdata.email))
         doc == [id |-> Len(customers) + 1,
                 email |-> email,
                 password |-> regdata.password,
                 firstName |-> regdata.firstName,
                 lastName |-> regdata.lastName,
                 phone |-> regdata.phone,
                 isActive |-> TRUE,
                 defaultAddress |-> None,
                 totalOrders |-> 0,
                 totalSpent |-> 0,
                 loyaltyPoints |-> 0,
                 lastOrderDate |-> None]
     IN  IF \E i \in DOMAIN customers : customers[i].email = email
         THEN /\ \/ RegisterReturn(409, "An account with this email already exists")
                 \/ RegisterReturn(500, "Registration failed. Please try again.")
              /\ UNCHANGED customers
         ELSE IF ~PhoneValid(regdata.phone)
         THEN /\ RegisterReturn(500, "Registration failed. Please try again.")
              /\ UNCHANGED customers
         ELSE /\ customers' = Append(customers, doc)
              /\ regpc' = "login"
              /\ UNCHANGED regresponse
  /\ UNCHANGED <<now, orders, checkoutVars, regdata>>

\* payload.login with the email as it was sent: the store looks the
\* account up under that spelling or under its normal form; a failed login
\* throws into the handler's catch.
RegisterLogin ==
  /\ regpc = "login"
  /\ \E email \in {regdata.email, trim(toLowerCase(regdata.email))} :
       IF LoginToken(email, regdata.password)
       THEN RegisterReturn(200, "")
       ELSE RegisterReturn(500, "Registration failed. Please try again.")
  /\ UNCHANGED <<now, customers, orders, checkoutVars, regdata>>

\* Checkouts and registrations, one operation after another.
NextAccounts ==
  \/ /\ \E r \in Reqs : \E body \in AccountBodies :
          /\ Arrives(r)
          /\ \A q \in Reqs : ~InFlight(q)
          /\ regpc \in {"idle", "done"}
          /\ Receive(r, body)
     /\ UNCHANGED <<orderOpVars, configVars, offerVars, policyVars, catalogVars,
                    registerVars>>
  \/ /\ \E r \in Reqs : Step(r)
     /\ UNCHANGED <<orderOpVars, configVars, offerVars, policyVars, catalogVars,
                    registerVars>>
  \/ /\ \E body \in RegisterBodies :
          /\ \A q \in Reqs : ~InFlight(q)
          /\ RegisterReceive(body)
     /\ UNCHANGED <<orderOpVars, configVars, offerVars, policyVars, catalogVars>>
  \/ /\ RegisterFind
     /\ UNCHANGED <<orderOpVars, configVars, offerVars, policyVars, catalogVars>>
  \/ /\ RegisterCreate
     /\ UNCHANGED <<orderOpVars, configVars, offerVars, policyVars, catalogVars>>
  \/ /\ RegisterLogin
     /\ UNCHANGED <<orderOpVars, configVars, offerVars, policyVars, catalogVars>>

SpecAccounts == Init /\ [][NextAccounts]_vars



\* ------------------------------------------------- POST /api/orders/cancel
\* The cancel handler returns.
CancelReturn(c, status, error) ==
  /\ cpc' = [cpc EXCEPT ![c] = "done"]
  /\ cresponse' = [cresponse EXCEPT ![c] = [status |-> status, error |-> error]]

\* The statuses from which a customer may cancel.
Cancellable(status) == status \in {"pending", "confirmed"}

\* The body is parsed; orderNumber and customerId must be present.  A
\* request is numbered by the first handler that is free.
CancelReceive(c, body) ==
  /\ cpc[c] \in {"idle", "done"}
  /\ \A d \in Cancels : d < c => cpc[d] \notin {"idle", "done"}
  /\ opCount < MaxOps
  /\ opCount' = opCount + 1
  /\ cdata' = [cdata EXCEPT ![c] = body]
  /\ corder' = [corder EXCEPT ![c] = None]
  /\ cwrites' = [cwrites EXCEPT ![c] = {}]
  /\ IF ~Has(body.orderNumber) \/ ~Has(body.customerId)
     THEN CancelReturn(c, 400, "Order number and customer ID are required")
     ELSE /\ cpc' = [cpc EXCEPT ![c] = "find"]
          /\ cresponse' = [cresponse EXCEPT ![c] = NoOpResponse]
  /\ UNCHANGED <<now, customers, orders, checkoutVars, statusHistory, patchVars,
                 statusUpdates>>

\* payload.find on orders by orderNumber and customer, then the status test.
CancelFind(c) ==
  /\ cpc[c] = "find"
  /\ LET docs == {i \in DOMAIN orders :
                    /\ orders[i].orderNumber = The(cdata[c].orderNumber)
                    /\ orders[i].customer = The(cdata[c].customerId)}
     IN  IF docs = {}
         THEN /\ CancelReturn(c, 404, "Order not found or does not belong to you")
              /\ UNCHANGED corder
         ELSE LET id == CHOOSE i \in docs : \A j \in docs : i <= j
              IN  IF ~Cancellable(orders[id].status)
                  THEN /\ CancelReturn(c, 400,
                             "Cannot cancel order with status: " \o orders[id].status)
                       /\ UNCHANGED corder
                  ELSE /\ cpc' = [cpc EXCEPT ![c] = "update"]
                       /\ corder' = [corder EXCEPT ![c] =
                              Some([id |-> id,
                                    status |-> orders[id].status,
                                    customerNotes |-> orders[id].customerNotes])]
                       /\ UNCHANGED cresponse
  /\ UNCHANGED <<now, customers, orders, checkoutVars, statusHistory, cdata, cwrites,
                 patchVars, opCount, statusUpdates>>

\* (mutant) the cancellation marker replaces the notes
CancelNotesReplace(customerNotes, reason) ==
  IF reason # "" THEN "CANCELLED: " \o reason ELSE "CANCELLED by customer"

\* The customerNotes a cancellation writes: the notes of the order it
\* loaded, a separator when there were notes, and the cancellation marker.
CancelNotes(customerNotes, reason) ==
  IF reason # ""
  THEN (IF customerNotes # "" THEN customerNotes \o " | " ELSE "") \o
       "CANCELLED: " \o reason
  ELSE (IF customerNotes # "" THEN customerNotes \o " | " ELSE "") \o
       "CANCELLED by customer"

\* The validation the orders collection runs on a document to update: the
\* field validators see the stored values of the fields the update leaves
\* out, bookingDate.validate with the clock of the update.
OrderUpdateValid(doc, clock) ==
  /\ Len(doc.items) >= 1
  /\ \A i \in DOMAIN doc.items : doc.items[i].quantity >= 1
  /\ doc.status \in OrderStatuses
  /\ doc.serviceType \in {"delivery", "pickup"}
  /\ BookingDateValid(doc.bookingDate, clock)
  /\ doc.serviceType = "delivery" =>
        /\ Has(doc.deliveryAddress)
        /\ The(doc.deliveryAddress).street # ""
        /\ The(doc.deliveryAddress).area # ""
        /\ The(doc.deliveryAddress).city # ""
        /\ The(doc.deliveryAddress).phone # <<>>

\* payload.update of the order loaded: status cancelled and the new notes.
\* A rejected update lands in the handler's catch.
CancelUpdate(c) ==
  /\ cpc[c] = "update"
  /\ \E t \in 0..MaxClock :
       LET id == The(corder[c]).id
           doc == [orders[id] EXCEPT
                     !.status = "cancelled",
                     !.customerNotes = CancelNotes(The(corder[c]).customerNotes,
                                                   cdata[c].reason)]
       IN  /\ ReadClock(t)
           /\ IF ~OrderUpdateValid(doc, t)
              THEN /\ CancelReturn(c, 500, "Failed to cancel order. Please try again.")
                   /\ UNCHANGED <<orders, cwrites>>
              ELSE /\ orders' = [orders EXCEPT ![id] = doc]
                   /\ cwrites' = [cwrites EXCEPT ![c] = @ \cup {"orders.update"}]
                   /\ CancelReturn(c, 200, "")
  /\ UNCHANGED <<customers, checkoutVars, statusHistory, cdata, corder, patchVars,
                 opCount, statusUpdates>>

\* ------------------------------------------------------ PATCH /api/orders
\* The PATCH handler returns.
PatchReturn(p, status, error) ==
  /\ ppc' = [ppc EXCEPT ![p] = "done"]
  /\ presponse' = [presponse EXCEPT ![p] = [status |-> status, error |-> error]]

\* The body is parsed; orderId and status must be present.
PatchReceive(p, body) ==
  /\ ppc[p] \in {"idle", "done"}
  /\ \A q \in Patches : q < p => ppc[q] \notin {"idle", "done"}
  /\ opCount < MaxOps
  /\ opCount' = opCount + 1
  /\ pdata' = [pdata EXCEPT ![p] = body]
  /\ pwrites' = [pwrites EXCEPT ![p] = {}]
  /\ IF ~Has(body.orderId) \/ body.status = ""
     THEN PatchReturn(p, 400, "Order ID and status are required")
     ELSE /\ ppc' = [ppc EXCEPT ![p] = "update"]
          /\ presponse' = [presponse EXCEPT ![p] = NoOpResponse]
  /\ UNCHANGED <<now, customers, orders, checkoutVars, statusHistory, cancelVars,
                 statusUpdates>>

\* The order document PATCH asks the store to write.
PatchedOrder(doc, body, clock) ==
  [doc EXCEPT !.status = body.status,
              !.adminNotes = IF body.adminNotes # "" THEN body.adminNotes ELSE @,
              !.actualDeliveryTime =
                 IF body.status = "completed" THEN Some(clock) ELSE @]

\* payload.update of the order by id; a missing order or a rejected
\* document lands in the handler's catch.
PatchUpdate(p) ==
  /\ ppc[p] = "update"
  /\ \E t \in 0..MaxClock :
       LET id == The(pdata[p].orderId)
       IN  /\ ReadClock(t)
           /\ IF \/ id \notin DOMAIN orders
                 \/ ~OrderUpdateValid(PatchedOrder(orders[id], pdata[p], t), t)
              THEN /\ PatchReturn(p, 500, "Failed to update order")
                   /\ UNCHANGED <<orders, pwrites, statusUpdates>>
              ELSE /\ orders' = [orders EXCEPT ![id] = PatchedOrder(@, pdata[p], t)]
                   /\ pwrites' = [pwrites EXCEPT ![p] = @ \cup {"orders.update"}]
                   /\ statusUpdates' = [statusUpdates EXCEPT ![id] = @ + 1]
                   /\ ppc' = [ppc EXCEPT ![p] = "history"]
                   /\ UNCHANGED presponse
  /\ UNCHANGED <<customers, checkoutVars, statusHistory, cancelVars, pdata, opCount>>

\* The history entry PATCH creates.
HistoryEntry(body, clock) ==
  [order |-> The(body.orderId),
   status |-> body.status,
   notes |-> IF body.adminNotes # "" THEN body.adminNotes
             ELSE "Status updated to " \o body.status,
   timestamp |-> clock]

\* The validation the order-status-history collection runs on an entry.
HistoryValid(entry) ==
  /\ entry.order \in DOMAIN orders
  /\ entry.status \in HistoryStatuses

\* payload.create of the history entry, then the success response; a
\* rejected entry lands in the handler's catch.
PatchHistory(p) ==
  /\ ppc[p] = "history"
  /\ \E t \in 0..MaxClock :
       LET entry == HistoryEntry(pdata[p], t)
       IN  /\ ReadClock(t)
           /\ IF ~HistoryValid(entry)
              THEN /\ PatchReturn(p, 500, "Failed to update order")
                   /\ UNCHANGED <<statusHistory, pwrites>>
              ELSE /\ statusHistory' = Append(statusHistory, entry)
                   /\ pwrites' = [pwrites EXCEPT ![p] = @ \cup {"history.create"}]
                   /\ PatchReturn(p, 200, "")
  /\ UNCHANGED <<customers, orders, checkoutVars, cancelVars, pdata, opCount,
                 statusUpdates>>

\* Cancel requests and admin updates on the orders of two customers.
InitOrders ==
  /\ now = 1
  /\ customers = SeedCustomers
  /\ orders = SeedOrders
  /\ statusUpdates = [i \in DOMAIN SeedOrders |-> 0]
  /\ CheckoutIdle
  /\ OrderOpsIdle
  /\ ConfigIdle
  /\ OfferIdle
  /\ PolicyIdle
  /\ CatalogIdle
  /\ RegisterIdle

NextOrders ==
  \/ /\ \E c \in Cancels : \E body \in CancelBodies : CancelReceive(c, body)
     /\ UNCHANGED <<configVars, offerVars, policyVars, catalogVars,
                    registerVars>>
  \/ /\ \E c \in Cancels : CancelFind(c)
     /\ UNCHANGED <<configVars, offerVars, policyVars, catalogVars,
                    registerVars>>
  \/ /\ \E c \in Cancels : CancelUpdate(c)
     /\ UNCHANGED <<configVars, offerVars, policyVars, catalogVars,
                    registerVars>>
  \/ /\ \E p \in Patches : \E body \in PatchBodies : PatchReceive(p, body)
     /\ UNCHANGED <<configVars, offerVars, policyVars, catalogVars,
                    registerVars>>
  \/ /\ \E p \in Patches : PatchUpdate(p)
     /\ UNCHANGED <<configVars, offerVars, policyVars, catalogVars,
                    registerVars>>
  \/ /\ \E p \in Patches : PatchHistory(p)
     /\ UNCHANGED <<configVars, offerVars, policyVars, catalogVars,
                    registerVars>>

SpecOrders == InitOrders /\ [][NextOrders]_vars


\* ------------------------------------------------- store-config.ts: the cache
\* The clock readings of the cache runs: around each multiple of
\* CACHE_DURATION.
ConfigTimes ==
  {t \in {k * CACHE_DURATION + d : k \in 0..MaxCacheAges, d \in {-1, 0, 1}} : t >= 0}

\* Date.now() in the cache runs: the last reading or a later time.
ConfigClock(t) ==
  /\ t \in ConfigTimes
  /\ t >= now
  /\ now' = t

\* (mutant) a cached value of exactly CACHE_DURATION still counts as fresh
FreshInclusive(clock, timestamp) == (clock - timestamp) <= CACHE_DURATION

\* (now - cacheTimestamp) < CACHE_DURATION
Fresh(clock, timestamp) == (clock - timestamp) < CACHE_DURATION

\* { ...defaultConfig, ...config }: the stored fields over the defaults.
Merged(config) ==
  [f \in DOMAIN defaultConfig \cup DOMAIN config |->
     IF f \in DOMAIN config THEN config[f] ELSE defaultConfig[f]]

\* getStoreConfig begins: the clock is read and a fresh cached value is
\* returned at once.  The locals of a call die when it returns; a call is
\* numbered by the first slot that is free.
GetStart(g) ==
  /\ gpc[g] \in {"idle", "done"}
  /\ \A h \in Gets : h < g => gpc[h] \notin {"idle", "done"}
  /\ \E t \in ConfigTimes :
       /\ ConfigClock(t)
       /\ gseen' = [gseen EXCEPT ![g] = storeConfig.taxRate]
       /\ IF Has(configCache) /\ Fresh(t, cacheTimestamp)
          THEN /\ gpc' = [gpc EXCEPT ![g] = "done"]
               /\ gresult' = [gresult EXCEPT ![g] =
                      [config |-> configCache, from |-> "cache"]]
               /\ UNCHANGED gnow
          ELSE /\ gpc' = [gpc EXCEPT ![g] = "read"]
               /\ gnow' = [gnow EXCEPT ![g] = t]
               /\ gresult' = [gresult EXCEPT ![g] = NoResult]
  /\ UNCHANGED <<customers, orders, checkoutVars, orderOpVars, storeConfig,
                 configCache, cacheTimestamp, cacheFetchedAt, gconfig, gcleared, rpc,
                 rresponse>>

\* (mutant) a failed read empties the cache
GetReadClearing(g) ==
  /\ gpc[g] = "read"
  /\ \/ /\ gconfig' = [gconfig EXCEPT ![g] =
               Some([config |-> storeConfig, readAt |-> now])]
        /\ gpc' = [gpc EXCEPT ![g] = "assign"]
        /\ UNCHANGED <<gnow, gresult, configCache, cacheTimestamp>>
     \/ /\ gpc' = [gpc EXCEPT ![g] = "done"]
        /\ gresult' = [gresult EXCEPT ![g] =
               [config |-> Some(defaultConfig), from |-> "default"]]
        /\ gnow' = [gnow EXCEPT ![g] = 0]
        /\ configCache' = None
        /\ cacheTimestamp' = 0
        /\ UNCHANGED gconfig
  /\ UNCHANGED <<now, customers, orders, checkoutVars, orderOpVars, storeConfig,
                 cacheFetchedAt, gseen, gcleared, rpc, rresponse>>

\* payload.findGlobal resolves with the stored global, or rejects and the
\* catch returns defaultConfig.  The read is no earlier than the last clock
\* reading, which is noted as its time.
GetRead(g) ==
  /\ gpc[g] = "read"
  /\ \/ /\ gconfig' = [gconfig EXCEPT ![g] =
               Some([config |-> storeConfig, readAt |-> now])]
        /\ gpc' = [gpc EXCEPT ![g] = "assign"]
        /\ UNCHANGED <<gnow, gresult>>
     \/ /\ gpc' = [gpc EXCEPT ![g] = "done"]
        /\ gresult' = [gresult EXCEPT ![g] =
               [config |-> Some(defaultConfig), from |-> "default"]]
        /\ gnow' = [gnow EXCEPT ![g] = 0]
        /\ UNCHANGED gconfig
  /\ UNCHANGED <<now, customers, orders, checkoutVars, orderOpVars, storeConfig,
                 configCache, cacheTimestamp, cacheFetchedAt, gseen, gcleared, rpc,
                 rresponse>>

\* The call resumes after the await: the merged value is cached under the
\* `now` read when the call began, and returned.
GetAssign(g) ==
  /\ gpc[g] = "assign"
  /\ configCache' = Some(Merged(The(gconfig[g]).config))
  /\ cacheTimestamp' = gnow[g]
  /\ cacheFetchedAt' = The(gconfig[g]).readAt
  /\ gpc' = [gpc EXCEPT ![g] = "done"]
  /\ gresult' = [gresult EXCEPT ![g] =
         [config |-> Some(Merged(The(gconfig[g]).config)), from |-> "store"]]
  /\ gnow' = [gnow EXCEPT ![g] = 0]
  /\ gconfig' = [gconfig EXCEPT ![g] = None]
  /\ gcleared' = [gcleared EXCEPT ![g] = FALSE]
  /\ UNCHANGED <<now, customers, orders, checkoutVars, orderOpVars, storeConfig,
                 gseen, rpc, rresponse>>

\* An admin saves the store-config global (the global has no change hook).
AdminUpdate ==
  /\ storeConfig.taxRate < MaxWrites
  /\ storeConfig' = StoredConfig(storeConfig.taxRate + 1)
  /\ UNCHANGED <<now, customers, orders, checkoutVars, orderOpVars, configCache,
                 cacheTimestamp, cacheFetchedAt, gpc, gnow, gconfig, gresult, gseen,
                 gcleared, rpc, rresponse>>

\* POST /api/store-config: payload.findGlobal resolves, or rejects and the
\* catch answers 500.
RefreshRead ==
  /\ rpc \in {"idle", "done"}
  /\ \/ rpc' = "clear" /\ rresponse' = 0
     \/ rpc' = "done" /\ rresponse' = 500
  /\ UNCHANGED <<now, customers, orders, checkoutVars, orderOpVars, storeConfig,
                 configCache, cacheTimestamp, cacheFetchedAt, gpc, gnow, gconfig,
                 gresult, gseen, gcleared>>

\* clearConfigCache(), then the success response.
RefreshClear ==
  /\ rpc = "clear"
  /\ configCache' = None
  /\ cacheTimestamp' = 0
  /\ rpc' = "done"
  /\ rresponse' = 200
  /\ gcleared' = [g \in Gets |-> gpc[g] = "assign"]
  /\ UNCHANGED <<now, customers, orders, checkoutVars, orderOpVars, storeConfig,
                 cacheFetchedAt, gpc, gnow, gconfig, gresult, gseen>>

NextConfig ==
  \/ /\ \E g \in Gets : GetStart(g)
     /\ UNCHANGED <<offerVars, policyVars, catalogVars, registerVars>>
  \/ /\ \E g \in Gets : GetRead(g)
     /\ UNCHANGED <<offerVars, policyVars, catalogVars, registerVars>>
  \/ /\ \E g \in Gets : GetAssign(g)
     /\ UNCHANGED <<offerVars, policyVars, catalogVars, registerVars>>
  \/ /\ AdminUpdate
     /\ UNCHANGED <<offerVars, policyVars, catalogVars, registerVars>>
  \/ /\ RefreshRead
     /\ UNCHANGED <<offerVars, policyVars, catalogVars, registerVars>>
  \/ /\ RefreshClear
     /\ UNCHANGED <<offerVars, policyVars, catalogVars, registerVars>>

SpecConfig == Init /\ [][NextConfig]_vars


\* ------------------------------------------------------ the offer functions
\* Math.max
Max(a, b) == IF a >= b THEN a ELSE b

\* The result of a division that may be 0/0: NaN is the empty set, a
\* number its singleton.
NaN == {}
Num(n) == {n}

\* Math.round((a / b) * 100) for a >= 0: to the nearest whole number, a half
\* upwards; NaN when a and b are both 0.
RoundPercent(a, b) ==
  IF b = 0 THEN NaN ELSE Num((2 * 100 * a + b) \div (2 * b))

\* (mutant) the end date itself is already outside the offer
isOfferActiveEndExclusive(item, clock) ==
  IF ~item.isOnOffer \/ ~Has(item.discountValue) \/ The(item.discountValue) = 0
     \/ The(item.discountValue) <= 0
  THEN FALSE
  ELSE IF Has(item.offerStartDate) /\ clock < The(item.offerStartDate) THEN FALSE
  ELSE IF Has(item.offerEndDate) /\ clock >= The(item.offerEndDate) THEN FALSE
  ELSE TRUE

\* isOfferActive, `clock` being its reading of new Date().
isOfferActive(item, clock) ==
  IF ~item.isOnOffer \/ ~Has(item.discountValue) \/ The(item.discountValue) = 0
     \/ The(item.discountValue) <= 0
  THEN FALSE
  ELSE IF Has(item.offerStartDate) /\ clock < The(item.offerStartDate) THEN FALSE
  ELSE IF Has(item.offerEndDate) /\ clock > The(item.offerEndDate) THEN FALSE
  ELSE TRUE

\* (mutant) the discounted price without the floor at 0
getEffectivePriceUnclamped(item, clock) ==
  IF ~isOfferActive(item, clock) THEN item.price
  ELSE IF item.discountType = "percentage"
  THEN item.price - (item.price * The(item.discountValue)) \div 100
  ELSE IF item.discountType = "fixed"
  THEN item.price - The(item.discountValue) * OfferUnit
  ELSE item.price

\* getEffectivePrice; a fixed discountValue is an amount in OMR.
getEffectivePrice(item, clock) ==
  IF ~isOfferActive(item, clock) THEN item.price
  ELSE IF item.discountType = "percentage"
  THEN Max(0, item.price - (item.price * The(item.discountValue)) \div 100)
  ELSE IF item.discountType = "fixed"
  THEN Max(0, item.price - The(item.discountValue) * OfferUnit)
  ELSE item.price

\* getSavingsAmount: at[1] is the clock reading of its own isOfferActive,
\* at[2] that of getEffectivePrice.
getSavingsAmount(item, at) ==
  IF ~isOfferActive(item, at[1]) THEN 0
  ELSE item.price - getEffectivePrice(item, at[2])

\* getSavingsPercentage: at[1] is the reading of its own isOfferActive,
\* at[2] and at[3] are those of getSavingsAmount.
getSavingsPercentage(item, at) ==
  IF ~isOfferActive(item, at[1]) THEN Num(0)
  ELSE RoundPercent(getSavingsAmount(item, SubSeq(at, 2, 3)), item.price)

\* getPriceInfo: seven clock readings, in the order of its calls.
getPriceInfo(item, at) ==
  [isOnSale |-> isOfferActive(item, at[1]),
   originalPrice |-> item.price,
   effectivePrice |-> getEffectivePrice(item, at[2]),
   savings |-> getSavingsAmount(item, SubSeq(at, 3, 4)),
   savingsPercentage |-> getSavingsPercentage(item, SubSeq(at, 5, 7)),
   displayPrice |-> getEffectivePrice(item, at[2]),
   hasDiscount |-> /\ isOfferActive(item, at[1])
                   /\ getSavingsAmount(item, SubSeq(at, 3, 4)) > 0]

\* n successive readings of the clock, none before `from`.
RECURSIVE ReadingsFrom(_, _)
ReadingsFrom(n, from) ==
  IF n = 0 THEN {<<>>}
  ELSE UNION {{<<t>> \o at : at \in ReadingsFrom(n - 1, t)} : t \in from..MaxClock}

\* The readings of the clock during one synchronous call that makes n.
Readings(n) == ReadingsFrom(n, now)

\* The products the functions are applied to: free, cheap and ordinary
\* prices; no, zero, negative, in-range and out-of-range discount values.
OfferPrices == {0, 1 * OfferUnit, 3 * OfferUnit, 8 * OfferUnit, 10 * OfferUnit}

DiscountValues == {None, Some(-5), Some(0), Some(1), Some(2), Some(3), Some(20), Some(150)}

OfferItems ==
  { FoodItem(p, on, ty, dv, sd, ed) :
      p \in OfferPrices, on \in BOOLEAN, ty \in {"percentage", "fixed", ""},
      dv \in DiscountValues, sd \in {None, Some(1)}, ed \in {None, Some(1)} }

Call(fn, at, result) ==
  /\ offerCall' = [fn |-> fn, at |-> at, result |-> result]
  /\ now' = at[Len(at)]
  /\ UNCHANGED <<customers, orders, checkoutVars, orderOpVars, configVars, offerItem,
                 policyVars, catalogVars, registerVars>>

CallIsOfferActive ==
  \E at \in Readings(1) : Call("isOfferActive", at, isOfferActive(offerItem, at[1]))

CallGetEffectivePrice ==
  \E at \in Readings(1) :
    Call("getEffectivePrice", at, getEffectivePrice(offerItem, at[1]))

CallGetSavingsAmount ==
  \E at \in Readings(2) : Call("getSavingsAmount", at, getSavingsAmount(offerItem, at))

CallGetSavingsPercentage ==
  \E at \in Readings(3) :
    Call("getSavingsPercentage", at, getSavingsPercentage(offerItem, at))

CallGetPriceInfo ==
  \E at \in Readings(7) : Call("getPriceInfo", at, getPriceInfo(offerItem, at))

InitOffer ==
  /\ now = 0
  /\ customers = <<>>
  /\ orders = <<>>
  /\ statusUpdates = <<>>
  /\ CheckoutIdle
  /\ OrderOpsIdle
  /\ ConfigIdle
  /\ offerItem \in OfferItems
  /\ offerCall = NoCall
  /\ PolicyIdle
  /\ CatalogIdle
  /\ RegisterIdle

NextOffer ==
  \/ CallIsOfferActive
  \/ CallGetEffectivePrice
  \/ CallGetSavingsAmount
  \/ CallGetSavingsPercentage
  \/ CallGetPriceInfo

SpecOffer == InitOffer /\ [][NextOffer]_vars

\* ------------------------------------- the pricing and availability policy
\* A value of the store-config module or of the client hook is a record of
\* the members that are present: an absent (undefined) member is no key of
\* the record.  Amounts are whole OMR; tax is counted in 1/100 OMR.

\* An object literal of optional members: only the present ones are keys.
Present(r) == [k \in {j \in DOMAIN r : Has(r[j])} |-> The(r[k])]

\* A string of digits and colons, by its characters: a digit is its value,
\* the colon comes after '9' as in the character set.
Colon == 10

\* now.toTimeString().slice(0, 5): HH:MM, zero-padded.
TimeString(h, m) == <<h \div 10, h % 10, Colon, m \div 10, m % 10>>

\* a < b on strings: by the first character that differs, a proper prefix first.
RECURSIVE StringLess(_, _)
StringLess(a, b) ==
  IF b = <<>> THEN FALSE
  ELSE IF a = <<>> THEN TRUE
  ELSE IF Head(a) # Head(b) THEN Head(a) < Head(b)
  ELSE StringLess(Tail(a), Tail(b))

\* a >= b and a <= b on strings
StringGeq(a, b) == ~StringLess(a, b)
StringLeq(a, b) == ~StringLess(b, a)

\* What a call of a client function comes to: a value, undefined or NaN
\* (no value), or a TypeError thrown on reading a member of undefined.
Returns(v) == <<"returns", Some(v)>>
ReturnsNoValue == <<"returns", None>>
Throws == <<"throws", None>>

\* lib/store-config: config || defaultConfig
OrDefault(config) == IF Has(config) THEN The(config) ELSE defaultConfig

\* lib/store-config: storeConfig.serviceOptions?.enableDelivery ?? true
isDeliveryEnabled(config) ==
  LET effective == OrDefault(config)
  IN  IF /\ "serviceOptions" \in DOMAIN effective
         /\ "enableDelivery" \in DOMAIN effective.serviceOptions
      THEN effective.serviceOptions.enableDelivery
      ELSE TRUE

\* lib/store-config: storeConfig.serviceOptions?.enablePickup ?? true
isPickupEnabled(config) ==
  LET effective == OrDefault(config)
  IN  IF /\ "serviceOptions" \in DOMAIN effective
         /\ "enablePickup" \in DOMAIN effective.serviceOptions
      THEN effective.serviceOptions.enablePickup
      ELSE TRUE

\* const { deliveryFee = 0, freeDeliveryThreshold = 0 } = serviceOptions || {}
OrZero(config, member) ==
  LET effective == OrDefault(config)
  IN  IF /\ "serviceOptions" \in DOMAIN effective
         /\ member \in DOMAIN effective.serviceOptions
      THEN effective.serviceOptions[member]
      ELSE 0

\* (mutant) an order of exactly the threshold still pays the fee
calculateDeliveryFeeAboveThreshold(orderAmount, serviceType, config) ==
  IF serviceType = "pickup" \/ ~isDeliveryEnabled(config) THEN 0
  ELSE IF /\ OrZero(config, "freeDeliveryThreshold") > 0
          /\ orderAmount > OrZero(config, "freeDeliveryThreshold") THEN 0
  ELSE OrZero(config, "deliveryFee")

\* lib/store-config: calculateDeliveryFee
calculateDeliveryFee(orderAmount, serviceType, config) ==
  IF serviceType = "pickup" \/ ~isDeliveryEnabled(config) THEN 0
  ELSE IF /\ OrZero(config, "freeDeliveryThreshold") > 0
          /\ orderAmount >= OrZero(config, "freeDeliveryThreshold") THEN 0
  ELSE OrZero(config, "deliveryFee")

\* lib/store-config: calculateTax, (amount * taxRate) / 100 in 1/100 OMR
calculateTax(amount, config) ==
  LET effective == OrDefault(config)
  IN  amount * (IF "taxRate" \in DOMAIN effective THEN effective.taxRate ELSE 0)

\* lib/store-config: isStoreOpen at a reading of the clock, by its weekday
\* and its time of day in the zone of the process
isStoreOpen(config, at) ==
  LET effective == OrDefault(config)
  IN  IF "operatingHours" \notin DOMAIN effective THEN TRUE
      ELSE LET operatingHours == effective.operatingHours
               openTime == IF "openTime" \in DOMAIN operatingHours
                           THEN operatingHours.openTime ELSE TimeString(0, 0)
               closeTime == IF "closeTime" \in DOMAIN operatingHours
                            THEN operatingHours.closeTime ELSE TimeString(23, 59)
           IN  IF /\ "closedDays" \in DOMAIN operatingHours
                  /\ at.currentDay \in operatingHours.closedDays
               THEN FALSE
               ELSE /\ StringGeq(at.currentTime, openTime)
                    /\ StringLeq(at.currentTime, closeTime)

\* lib/store-config: getAvailableServices
getAvailableServices(config) ==
  (IF isDeliveryEnabled(config) THEN <<"delivery">> ELSE <<>>)
    \o (IF isPickupEnabled(config) THEN <<"pickup">> ELSE <<>>)

\* useStoreConfig: isDeliveryEnabled over the hook's `config` state
useStoreConfig_isDeliveryEnabled(config) ==
  IF /\ "serviceOptions" \in DOMAIN config
     /\ "enableDelivery" \in DOMAIN config.serviceOptions
  THEN config.serviceOptions.enableDelivery
  ELSE TRUE

\* useStoreConfig: isPickupEnabled
useStoreConfig_isPickupEnabled(config) ==
  IF /\ "serviceOptions" \in DOMAIN config
     /\ "enablePickup" \in DOMAIN config.serviceOptions
  THEN config.serviceOptions.enablePickup
  ELSE TRUE

\* A member read without a default: its value, or undefined.
Member(object, member) ==
  IF member \in DOMAIN object THEN Returns(object[member]) ELSE ReturnsNoValue

\* (mutant) the client charges the fee on an order of exactly the threshold
useStoreConfig_calculateDeliveryFeeAboveThreshold(orderAmount, serviceType, config) ==
  IF serviceType = "pickup" \/ ~useStoreConfig_isDeliveryEnabled(config) THEN Returns(0)
  ELSE IF "serviceOptions" \notin DOMAIN config THEN Throws
  ELSE IF /\ "freeDeliveryThreshold" \in DOMAIN config.serviceOptions
          /\ config.serviceOptions.freeDeliveryThreshold > 0
          /\ orderAmount > config.serviceOptions.freeDeliveryThreshold THEN Returns(0)
  ELSE Member(config.serviceOptions, "deliveryFee")

\* useStoreConfig: calculateDeliveryFee.  config.serviceOptions is read
\* without `?.`; undefined > 0 is false.
useStoreConfig_calculateDeliveryFee(orderAmount, serviceType, config) ==
  IF serviceType = "pickup" \/ ~useStoreConfig_isDeliveryEnabled(config) THEN Returns(0)
  ELSE IF "serviceOptions" \notin DOMAIN config THEN Throws
  ELSE IF /\ "freeDeliveryThreshold" \in DOMAIN config.serviceOptions
          /\ config.serviceOptions.freeDeliveryThreshold > 0
          /\ orderAmount >= config.serviceOptions.freeDeliveryThreshold THEN Returns(0)
  ELSE Member(config.serviceOptions, "deliveryFee")

\* useStoreConfig: calculateTax; amount * undefined is NaN.
useStoreConfig_calculateTax(amount, config) ==
  IF "taxRate" \in DOMAIN config THEN Returns(amount * config.taxRate) ELSE ReturnsNoValue

\* useStoreConfig: isStoreOpen.  config.operatingHours is read without
\* `?.`; a comparison with undefined is false.
useStoreConfig_isStoreOpen(config, at) ==
  IF "operatingHours" \notin DOMAIN config THEN Throws
  ELSE LET operatingHours == config.operatingHours
       IN  IF /\ "closedDays" \in DOMAIN operatingHours
              /\ at.currentDay \in operatingHours.closedDays
           THEN Returns(FALSE)
           ELSE Returns(/\ "openTime" \in DOMAIN operatingHours
                        /\ "closeTime" \in DOMAIN operatingHours
                        /\ StringGeq(at.currentTime, operatingHours.openTime)
                        /\ StringLeq(at.currentTime, operatingHours.closeTime))

\* useStoreConfig: getAvailableServices
useStoreConfig_getAvailableServices(config) ==
  Returns((IF useStoreConfig_isDeliveryEnabled(config) THEN <<"delivery">> ELSE <<>>)
            \o (IF useStoreConfig_isPickupEnabled(config) THEN <<"pickup">> ELSE <<>>))

\* The service options the functions are applied to: each member absent or
\* set; a fee of 0 or 1 OMR, no threshold or one of 50 OMR.
ServiceOptionsSet ==
  { Present([enableDelivery |-> d, enablePickup |-> p, deliveryFee |-> f,
             freeDeliveryThreshold |-> th]) :
      d \in {None, Some(TRUE), Some(FALSE)}, p \in {None, Some(TRUE), Some(FALSE)},
      f \in {None, Some(0), Some(1)}, th \in {None, Some(0), Some(50)} }

\* The operating hours: the default ones, an opening time typed without
\* its leading zero, closed on fridays.
OperatingHoursSet ==
  { Present([openTime |-> o, closeTime |-> c, closedDays |-> d]) :
      o \in {None, Some(TimeString(9, 0)), Some(<<9, Colon, 0, 0>>)},
      c \in {None, Some(TimeString(22, 0))},
      d \in {None, Some({}), Some({"friday"})} }

\* The configurations: each group absent or present.
PolicyConfigs ==
  { Present([taxRate |-> t, serviceOptions |-> so, operatingHours |-> oh]) :
      t \in {None, Some(0), Some(5)},
      so \in {None} \cup {Some(s) : s \in ServiceOptionsSet},
      oh \in {None} \cup {Some(h) : h \in OperatingHoursSet} }

\* A configuration with every member the functions read.
Complete(config) ==
  /\ {"taxRate", "serviceOptions", "operatingHours"} \subseteq DOMAIN config
  /\ {"enableDelivery", "enablePickup", "deliveryFee", "freeDeliveryThreshold"}
       \subseteq DOMAIN config.serviceOptions
  /\ {"openTime", "closeTime", "closedDays"} \subseteq DOMAIN config.operatingHours

\* Order amounts around the threshold.
Subtotals == {0, 40, 49, 50, 51, 60}

\* new Date(): a weekday and a time of day
WallClocks ==
  { [currentDay |-> d, currentTime |-> t] :
      d \in {"monday", "friday"},
      t \in {TimeString(8, 59), TimeString(9, 0), TimeString(10, 30),
             TimeString(22, 0), TimeString(22, 1)} }

\* The hook's `config` state: the fetched configuration, the default one
\* while none was fetched.
HookConfig == IF Has(policyConfig) THEN The(policyConfig) ELSE defaultConfig

PolicyCall(fn, args, server, client) ==
  /\ policyCall' = [fn |-> fn, args |-> args, server |-> server, client |-> client]
  /\ UNCHANGED <<now, customers, orders, checkoutVars, orderOpVars, configVars,
                 offerVars, policyConfig, catalogVars, registerVars>>

CallCalculateDeliveryFee ==
  \E orderAmount \in Subtotals, serviceType \in {"delivery", "pickup"} :
    PolicyCall("calculateDeliveryFee", <<orderAmount, serviceType>>,
               calculateDeliveryFee(orderAmount, serviceType, policyConfig),
               useStoreConfig_calculateDeliveryFee(orderAmount, serviceType, HookConfig))

CallCalculateTax ==
  \E amount \in Subtotals :
    PolicyCall("calculateTax", <<amount>>, calculateTax(amount, policyConfig),
               useStoreConfig_calculateTax(amount, HookConfig))

CallIsStoreOpen ==
  \E at \in WallClocks :
    PolicyCall("isStoreOpen", <<at>>, isStoreOpen(policyConfig, at),
               useStoreConfig_isStoreOpen(HookConfig, at))

CallGetAvailableServices ==
  PolicyCall("getAvailableServices", <<>>, getAvailableServices(policyConfig),
             useStoreConfig_getAvailableServices(HookConfig))

InitPolicy ==
  /\ now = 0
  /\ customers = <<>>
  /\ orders = <<>>
  /\ statusUpdates = <<>>
  /\ CheckoutIdle
  /\ OrderOpsIdle
  /\ ConfigIdle
  /\ OfferIdle
  /\ policyConfig \in {None} \cup {Some(c) : c \in PolicyConfigs}
  /\ policyCall = NoPolicyCall
  /\ CatalogIdle
  /\ RegisterIdle

NextPolicy ==
  \/ CallCalculateDeliveryFee
  \/ CallCalculateTax
  \/ CallIsStoreOpen
  \/ CallGetAvailableServices

SpecPolicy == InitPolicy /\ [][NextPolicy]_vars

\* ------------------------------------- the catalogue: products by category
\* A product is created in a category (products has no hooks).
CreateProduct(p, c) ==
  /\ productCategory[p] = ""
  /\ \A q \in ProductSlots : q < p => productCategory[q] # ""
  /\ productCategory' = [productCategory EXCEPT ![p] = c]
  /\ UNCHANGED <<itemCount, hookPc, hookTotalDocs>>

\* A product is deleted.
DeleteProduct(p) ==
  /\ productCategory[p] # ""
  /\ productCategory' = [productCategory EXCEPT ![p] = ""]
  /\ UNCHANGED <<itemCount, hookPc, hookTotalDocs>>

\* A product is moved to another category.
ReassignProduct(p, c) ==
  /\ productCategory[p] \notin {"", c}
  /\ productCategory' = [productCategory EXCEPT ![p] = c]
  /\ UNCHANGED <<itemCount, hookPc, hookTotalDocs>>

\* A category document is saved: its afterChange hook begins.
SaveCategory(c) ==
  /\ hookPc[c] = "idle"
  /\ hookPc' = [hookPc EXCEPT ![c] = "count"]
  /\ UNCHANGED <<productCategory, itemCount, hookTotalDocs>>

\* The hook's payload.count of the products of the category; a total equal
\* to doc.itemCount ends the hook.
CountProducts(c) ==
  /\ hookPc[c] = "count"
  /\ LET totalDocs == Cardinality({p \in ProductSlots : productCategory[p] = c})
     IN  IF totalDocs # itemCount[c]
         THEN /\ hookPc' = [hookPc EXCEPT ![c] = "update"]
              /\ hookTotalDocs' = [hookTotalDocs EXCEPT ![c] = totalDocs]
         ELSE /\ hookPc' = [hookPc EXCEPT ![c] = "idle"]
              /\ hookTotalDocs' = [hookTotalDocs EXCEPT ![c] = 0]
  /\ UNCHANGED <<productCategory, itemCount>>

\* The hook's payload.update of the category, which is a change of the
\* category: the hook runs again on the updated document.
UpdateItemCount(c) ==
  /\ hookPc[c] = "update"
  /\ itemCount' = [itemCount EXCEPT ![c] = hookTotalDocs[c]]
  /\ hookPc' = [hookPc EXCEPT ![c] = "count"]
  /\ hookTotalDocs' = [hookTotalDocs EXCEPT ![c] = 0]
  /\ UNCHANGED productCategory

NextCatalog ==
  \/ /\ \E p \in ProductSlots, c \in CategoryIds : CreateProduct(p, c)
     /\ UNCHANGED <<now, customers, orders, checkoutVars, orderOpVars, configVars,
                    offerVars, policyVars, registerVars>>
  \/ /\ \E p \in ProductSlots : DeleteProduct(p)
     /\ UNCHANGED <<now, customers, orders, checkoutVars, orderOpVars, configVars,
                    offerVars, policyVars, registerVars>>
  \/ /\ \E p \in ProductSlots, c \in CategoryIds : ReassignProduct(p, c)
     /\ UNCHANGED <<now, customers, orders, checkoutVars, orderOpVars, configVars,
                    offerVars, policyVars, registerVars>>
  \/ /\ \E c \in CategoryIds : SaveCategory(c)
     /\ UNCHANGED <<now, customers, orders, checkoutVars, orderOpVars, configVars,
                    offerVars, policyVars, registerVars>>
  \/ /\ \E c \in CategoryIds : CountProducts(c)
     /\ UNCHANGED <<now, customers, orders, checkoutVars, orderOpVars, configVars,
                    offerVars, policyVars, registerVars>>
  \/ /\ \E c \in CategoryIds : UpdateItemCount(c)
     /\ UNCHANGED <<now, customers, orders, checkoutVars, orderOpVars, configVars,
                    offerVars, policyVars, registerVars>>

SpecCatalog == Init /\ [][NextCatalog]_vars

\* ------------------------------------------------------------ properties
RECURSIVE SumSubtotals(_)
SumSubtotals(lines) ==
  IF lines = <<>> THEN 0
  ELSE lines[1].subtotal + SumSubtotals(Tail(lines))

Quiescent == \A r \in Reqs : ~InFlight(r)

Succeeded(r) == pc[r] = "done" /\ response[r].status = 200

\* C1: every order a checkout has persisted has one line per submitted cart
\* item, in the cart's order, each at the price of the product document of
\* that item's id, with subtotal = price * quantity, and totalAmount is the
\* sum of the subtotals.
C1_OrderRepricedFromProducts ==
  \A r \in Reqs : order[r] # 0 =>
    LET o == orders[order[r]]
        cart == The(data[r].items)
    IN  /\ Len(o.items) = Len(cart)
        /\ \A i \in DOMAIN cart :
             /\ o.items[i].foodItem = cart[i].id
             /\ o.items[i].quantity = cart[i].quantity
             /\ o.items[i].price = Products[cart[i].id].price
             /\ o.items[i].subtotal = o.items[i].price * o.items[i].quantity
        /\ o.totalAmount = SumSubtotals(o.items)

\* A successful checkout of a cart of two different lines.
C1_Witness ==
  \E r \in Reqs :
    /\ Succeeded(r)
    /\ order[r] # 0
    /\ Len(orders[order[r]].items) = 2
    /\ orders[order[r]].items[1].foodItem # orders[order[r]].items[2].foodItem

\* The body without what the client claims about amounts.
WithoutClientAmounts(body) ==
  [body EXCEPT
     !.totalAmount = 0,
     !.items = IF Has(@) THEN Some([i \in DOMAIN The(@) |-> [The(@)[i] EXCEPT !.price = 0]])
                         ELSE None]

\* C2: two checkouts whose bodies differ only in the item prices and the
\* totalAmount the client sent persist orders with the same line prices,
\* subtotals and totalAmount.
C2_ClientPricesIgnored ==
  \A r1, r2 \in Reqs :
    ( /\ order[r1] # 0 /\ order[r2] # 0
      /\ WithoutClientAmounts(data[r1]) = WithoutClientAmounts(data[r2]) )
    => /\ orders[order[r1]].items = orders[order[r2]].items
       /\ orders[order[r1]].totalAmount = orders[order[r2]].totalAmount

\* Two persisted orders whose requests differ in the claimed prices only.
C2_Witness ==
  \E r1, r2 \in Reqs :
    /\ Succeeded(r1) /\ Succeeded(r2)
    /\ order[r1] # 0 /\ order[r2] # 0
    /\ data[r1] # data[r2]
    /\ The(data[r1].items)[1].price # The(data[r2].items)[1].price
    /\ data[r1].totalAmount # data[r2].totalAmount
    /\ WithoutClientAmounts(data[r1]) = WithoutClientAmounts(data[r2])

BookingError == "Booking must be at least 24 hours in advance"

\* C3 (as claimed): a request with otherwise valid inputs is answered 400
\* with the scheduling error and creates no order when bookingDate - now is
\* under 24h at the handler's check, and creates an order when it is 24h or
\* more; every persisted order is booked at least 24h after its creation.
C3_LeadTimeDecidesAcceptance ==
  /\ \A r \in Reqs :
       (pc[r] = "done" /\ data[r] \in ValidBodies /\ Has(checkedAt[r])) =>
         IF The(data[r].bookingDate) - The(checkedAt[r]) < LeadMs
         THEN /\ response[r].status = 400
              /\ response[r].error = BookingError
              /\ order[r] = 0
         ELSE order[r] # 0
  /\ \A i \in DOMAIN orders : orders[i].bookingDate >= orders[i].createdAt + LeadMs

\* C4 (as claimed): a checkout rejected for its booking lead time has
\* written nothing to the store.
C4_SchedulingRejectionWritesNothing ==
  \A r \in Reqs :
    (pc[r] = "done" /\ response[r].error = BookingError) => writes[r] = {}

\* What the specification calls a structurally invalid request.
StructurallyInvalid(body) ==
  \/ ~Has(body.items)
  \/ The(body.items) = <<>>
  \/ ~Has(body.customerInfo)
  \/ The(body.customerInfo).email = ""
  \/ The(body.customerInfo).firstName = ""
  \/ The(body.customerInfo).lastName = ""
  \/ The(body.customerInfo).phone = <<>>
  \/ ~Has(body.bookingDate)
  \/ /\ body.serviceType = "delivery"
     /\ \/ ~Has(body.deliveryAddress)
        \/ The(body.deliveryAddress).street = ""
        \/ The(body.deliveryAddress).area = ""
        \/ The(body.deliveryAddress).city = ""
        \/ The(body.deliveryAddress).phone = <<>>

\* C5 (as claimed): a structurally invalid request is answered 400 and has
\* written nothing to the store.
C5_InvalidRequestHasNoEffect ==
  \A r \in Reqs :
    (pc[r] = "done" /\ StructurallyInvalid(data[r])) =>
      response[r].status = 400 /\ writes[r] = {}

\* The first cart item whose id is missing or is no product's (0: none).
FirstBadItem(cart) ==
  IF \E i \in DOMAIN cart : cart[i].id \notin ProductIds
  THEN CHOOSE i \in DOMAIN cart :
         /\ cart[i].id \notin ProductIds
         /\ \A j \in DOMAIN cart : cart[j].id \notin ProductIds => i <= j
  ELSE 0

\* C6 (as claimed): a checkout with an item whose id is missing or matches
\* no product is answered 400 with an error naming that item, creates no
\* order and leaves the customer's aggregates alone.
C6_UnknownItemRejectedWith400 ==
  \A r \in Reqs :
    ( /\ pc[r] = "done"
      /\ response[r].item # ""
      /\ Has(data[r].items)
      /\ FirstBadItem(The(data[r].items)) # 0 )
    => LET bad == The(data[r].items)[FirstBadItem(The(data[r].items))]
       IN  /\ response[r].status = 400
           /\ response[r].item \in {bad.id, bad.name}
           /\ order[r] = 0
           /\ writes[r] \cap {"orders.create", "customers.statistics"} = {}

\* The requests that succeeded with an order of customer id.
SucceededFor(id) ==
  {r \in Reqs : Succeeded(r) /\ orders[response[r].order].customer = id}

RECURSIVE SumTotals(_)
SumTotals(rs) ==
  IF rs = {} THEN 0
  ELSE LET r == CHOOSE x \in rs : TRUE
       IN  orders[response[r].order].totalAmount + SumTotals(rs \ {r})

RECURSIVE SumPoints(_)
SumPoints(rs) ==
  IF rs = {} THEN 0
  ELSE LET r == CHOOSE x \in rs : TRUE
       IN  Floor(orders[response[r].order].totalAmount) + SumPoints(rs \ {r})

\* C7: when checkouts run one after another, then between two of them every
\* customer has totalOrders = the number N of its successful checkouts,
\* totalSpent = the sum of their orders' totalAmount and loyaltyPoints = the
\* sum of the floors of these totals.
C7_AggregatesCountSuccessfulCheckouts ==
  Quiescent =>
    \A id \in DOMAIN customers :
      /\ customers[id].totalOrders = Cardinality(SucceededFor(id))
      /\ customers[id].totalSpent = SumTotals(SucceededFor(id))
      /\ customers[id].loyaltyPoints = SumPoints(SucceededFor(id))

\* Two successful checkouts of one customer, whose points are the sum of the
\* floors and not the floor of the sum.
C7_Witness ==
  /\ Quiescent
  /\ \E id \in DOMAIN customers :
       /\ Cardinality(SucceededFor(id)) = 2
       /\ customers[id].totalOrders = 2
       /\ customers[id].loyaltyPoints # Floor(customers[id].totalSpent)

\* C8 (as claimed): no step lowers a customer's totalOrders, totalSpent or
\* loyaltyPoints.
C8_AggregatesNeverDecrease ==
  [][\A id \in DOMAIN customers :
       /\ customers'[id].totalOrders >= customers[id].totalOrders
       /\ customers'[id].totalSpent >= customers[id].totalSpent
       /\ customers'[id].loyaltyPoints >= customers[id].loyaltyPoints]_vars

\* C9: the statistics update is last-write-wins: whatever the stored
\* aggregates are when request r writes, afterwards totalOrders is one more
\* than, and totalSpent is r's total more than, what r read before it
\* created its order; so of two concurrent checkouts one update can be lost.
C9_LastWriteWins ==
  [][\A r \in Reqs :
       (pc[r] = "updateStats" /\ pc'[r] = "login") =>
         LET id == The(customer[r]).id
         IN  /\ customers'[id].totalOrders = The(customer[r]).totalOrders + 1
             /\ customers'[id].totalSpent =
                  The(customer[r]).totalSpent + calculatedTotal[r]]_vars

\* Both concurrent checkouts of one customer succeeded and both orders are
\* persisted, yet totalOrders is 1 and totalSpent is one order's total.
C9_Witness ==
  \E r1, r2 \in Reqs :
    /\ r1 # r2
    /\ Succeeded(r1) /\ Succeeded(r2)
    /\ response[r1].order # response[r2].order
    /\ LET o1 == orders[response[r1].order]
           o2 == orders[response[r2].order]
       IN  /\ o1.customer = o2.customer
           /\ Cardinality({i \in DOMAIN orders : orders[i].customer = o1.customer}) = 2
           /\ customers[o1.customer].totalOrders = 1
           /\ customers[o1.customer].totalSpent \in {o1.totalAmount, o2.totalAmount}

\* C10 (as claimed): a request that has created its order answers with a
\* success response carrying that order, also when its statistics update
\* failed, and the order stays persisted.
C10_OrderCreatedMeansSuccess ==
  \A r \in Reqs :
    (pc[r] = "done" /\ order[r] # 0) =>
      /\ order[r] \in DOMAIN orders
      /\ response[r].status = 200
      /\ response[r].order = order[r]

\* C11: the step that requests the token always answers with success and the
\* order created, changes neither the orders nor the customers (the order and
\* the aggregates written before it stay), and puts a token in the response
\* only when the password sent is the stored password of the customer the
\* request resolved; a failed login leaves the token null.
C11_TokenFailureKeepsOrder ==
  [][\A r \in Reqs : (pc[r] = "login" /\ pc'[r] = "done") =>
        /\ response'[r].status = 200
        /\ response'[r].order = order[r]
        /\ order[r] \in DOMAIN orders
        /\ orders' = orders
        /\ customers' = customers
        /\ "customers.statistics" \in writes[r]
        /\ response'[r].authToken =>
              /\ The(data[r].customerInfo).password # ""
              /\ customers[orders[order[r]].customer].password =
                    The(data[r].customerInfo).password]_vars

\* An existing customer checked out with a password that is not theirs: the
\* order exists, the aggregates count it, the response is a success without
\* a token.
C11_Witness ==
  \E r \in Reqs :
    /\ Succeeded(r)
    /\ ~response[r].authToken
    /\ response[r].order \in DOMAIN orders
    /\ ~response[r].isNewCustomer
    /\ LET c == customers[orders[response[r].order].customer]
       IN  /\ c.password # The(data[r].customerInfo).password
           /\ c.totalOrders >= 1

\* C12 (as claimed): every valid checkout whose booking is far enough ahead
\* at every clock reading creates its order, also when an earlier identical
\* submission was handled in the same clock tick, and no two orders share an
\* orderNumber.
C12_ResubmissionCreatesSecondOrder ==
  /\ \A i, j \in DOMAIN orders : i # j => orders[i].orderNumber # orders[j].orderNumber
  /\ \A r \in Reqs :
       (/\ pc[r] = "done"
        /\ data[r] \in ValidBodies
        /\ The(data[r].bookingDate) = FarDate) => order[r] # 0

\* C13 (as claimed): a cancel request writes an order only when, at the
\* moment of the write, that order has the orderNumber given, belongs to the
\* customerId given and is pending or confirmed, and the write makes it
\* cancelled and is answered with success; a request that finds the order
\* of that customer in any other status is answered 400, one that finds no
\* such order of that customer 404, and in both cases no order changes.
C13_CancelOnlyFromPendingOrConfirmed ==
  [][\A c \in Cancels :
       /\ (cpc[c] = "update" /\ cpc'[c] = "done") =>
             LET id == The(corder[c]).id
             IN  /\ orders[id].orderNumber = The(cdata[c].orderNumber)
                 /\ orders[id].customer = The(cdata[c].customerId)
                 /\ Cancellable(orders[id].status)
                 /\ orders'[id].status = "cancelled"
                 /\ cresponse'[c].status = 200
       /\ (cpc[c] = "find" /\ cpc'[c] = "done") =>
             /\ orders' = orders
             /\ IF \E i \in DOMAIN orders :
                      /\ orders[i].orderNumber = The(cdata[c].orderNumber)
                      /\ orders[i].customer = The(cdata[c].customerId)
                THEN cresponse'[c].status = 400
                ELSE cresponse'[c].status = 404]_vars

C15_AdminUpdateAppendsHistory ==
  /\ (\A p \in Patches : ppc[p] # "history") =>
        \A i \in DOMAIN orders :
          Cardinality({k \in DOMAIN statusHistory : statusHistory[k].order = i})
            = statusUpdates[i]
  /\ \A p \in Patches : ppc[p] = "done" =>
        IF presponse[p].status = 200
        THEN pwrites[p] = {"orders.update", "history.create"}
        ELSE pwrites[p] = {}

\* C16: a getStoreConfig call that begins when a value is cached and less
\* than CACHE_DURATION (5 minutes) has passed since cacheTimestamp returns
\* that cached value without reading the store, and the value was read from
\* the store less than 5 minutes before; a call that begins with an empty
\* cache or a cached value of 5 minutes or more goes on to read the store.
C16_CacheServedOnlyWhileFresh ==
  [][\A g \in Gets :
       (/\ gpc[g] \in {"idle", "done"}
        /\ <<gpc[g], gresult[g], gseen[g]>>' # <<gpc[g], gresult[g], gseen[g]>>) =>
          IF Has(configCache) /\ now' - cacheTimestamp < 5 * 60 * 1000
          THEN /\ gpc'[g] = "done"
               /\ gresult'[g] = [config |-> configCache, from |-> "cache"]
               /\ now' - cacheFetchedAt < 5 * 60 * 1000
               /\ configCache' = configCache
          ELSE /\ gpc'[g] = "read"
               /\ gresult'[g].from # "cache"]_vars

\* A call begun exactly 5 minutes after the cached value's timestamp is
\* reading the store, the cache still holding that value.
C16_Witness ==
  \E g \in Gets :
    /\ gpc[g] = "read"
    /\ Has(configCache)
    /\ cacheFetchedAt = cacheTimestamp
    /\ gnow[g] - cacheTimestamp = CACHE_DURATION

\* C17 (as claimed): a getStoreConfig call that returns a stored
\* configuration returns one at least as new as the configuration the
\* store held when the call began, so never the value cached before an
\* admin write that had completed by then.
C17_WriteInvalidatesCache ==
  \A g \in Gets :
    (gpc[g] = "done" /\ gresult[g].from # "default") =>
      The(gresult[g].config).taxRate >= gseen[g]

\* C18: getEffectivePrice returns the price when the offer is not active at
\* its clock reading, max(0, price - price * discountValue / 100) for an
\* active percentage offer and max(0, price - discountValue) for an active
\* fixed offer; the result is always between 0 and the price; price 10 with
\* 20% gives 8 and price 10 with fixed 3 gives 7.
C18_EffectivePriceClamped ==
  offerCall.fn = "getEffectivePrice" =>
    LET price == offerItem.price
        active == isOfferActive(offerItem, offerCall.at[1])
        result == offerCall.result
    IN  /\ ~active => result = price
        /\ (active /\ offerItem.discountType = "percentage") =>
              LET cut == price - (price * The(offerItem.discountValue)) \div 100
              IN  result = IF cut < 0 THEN 0 ELSE cut
        /\ (active /\ offerItem.discountType = "fixed") =>
              LET cut == price - The(offerItem.discountValue) * OfferUnit
              IN  result = IF cut < 0 THEN 0 ELSE cut
        /\ 0 <= result /\ result <= price
        /\ (active /\ price = 10 * OfferUnit /\ offerItem.discountValue = Some(20)
              /\ offerItem.discountType = "percentage") => result = 8 * OfferUnit
        /\ (active /\ price = 10 * OfferUnit /\ offerItem.discountValue = Some(3)
              /\ offerItem.discountType = "fixed") => result = 7 * OfferUnit

\* An active fixed discount larger than the price: the result is 0.
C18_Witness ==
  /\ offerCall.fn = "getEffectivePrice"
  /\ isOfferActive(offerItem, offerCall.at[1])
  /\ offerItem.discountType = "fixed"
  /\ offerItem.price > 0
  /\ The(offerItem.discountValue) * OfferUnit > offerItem.price
  /\ offerCall.result = 0

\* C19: isOfferActive is true exactly when isOnOffer is set, discountValue
\* is present and above 0, and its clock reading is neither before the
\* start date nor after the end date, if there are such dates; a reading
\* equal to either date counts as inside.
C19_OfferActiveInClosedWindow ==
  offerCall.fn = "isOfferActive" =>
    LET t == offerCall.at[1]
    IN  offerCall.result <=>
          /\ offerItem.isOnOffer
          /\ offerItem.discountValue # None
          /\ \A v \in offerItem.discountValue : v > 0
          /\ \A sd \in offerItem.offerStartDate : sd <= t
          /\ \A ed \in offerItem.offerEndDate : t <= ed

\* The offer was found active at the very time of its end date.
C19_Witness ==
  /\ offerCall.fn = "isOfferActive"
  /\ offerCall.result = TRUE
  /\ offerItem.offerEndDate = Some(offerCall.at[1])
  /\ offerItem.offerStartDate = Some(offerCall.at[1])

\* C20 (as claimed): the savings of getPriceInfo are price - effectivePrice,
\* its savingsPercentage is round(100 * savings / price), and 0 when the
\* price is 0 or no offer is active; getSavingsPercentage alone gives 0 for
\* a price of 0 as well; price 10 with 20% off gives savings 2 and 20.
C20_SavingsAndPercentage ==
  /\ offerCall.fn = "getPriceInfo" =>
       LET info == offerCall.result
       IN  /\ info.savings = info.originalPrice - info.effectivePrice
           /\ info.savingsPercentage =
                 IF info.originalPrice = 0 \/ ~info.isOnSale THEN {0}
                 ELSE {(2 * 100 * info.savings + info.originalPrice)
                         \div (2 * info.originalPrice)}
           /\ (/\ info.isOnSale
               /\ info.originalPrice = 10 * OfferUnit
               /\ offerItem.discountType = "percentage"
               /\ offerItem.discountValue = Some(20)) =>
                 /\ info.savings = 2 * OfferUnit
                 /\ info.savingsPercentage = {20}
  /\ (offerCall.fn = "getSavingsPercentage" /\ offerItem.price = 0) =>
       offerCall.result = {0}

\* The configuration a policy call was given, the default one if none.
GivenConfig == OrDefault(policyConfig)

\* Its service options read as the claim names them: a member that is not
\* configured is 0, a service that is not configured is enabled.
Configured(member, otherwise) ==
  IF /\ "serviceOptions" \in DOMAIN GivenConfig
     /\ member \in DOMAIN GivenConfig.serviceOptions
  THEN GivenConfig.serviceOptions[member]
  ELSE otherwise

\* C21: calculateDeliveryFee is 0 for pickup or with delivery disabled, 0
\* when freeDeliveryThreshold > 0 and the subtotal is at least the threshold,
\* and the configured deliveryFee otherwise; with a threshold of 0 delivery
\* is never free of the fee; the result is 0 or deliveryFee; threshold 50
\* and fee 1 give 0 for a subtotal of 60 and 1 for a subtotal of 40.
C21_DeliveryFee ==
  policyCall.fn = "calculateDeliveryFee" =>
    LET subtotal == policyCall.args[1]
        serviceType == policyCall.args[2]
        enabled == Configured("enableDelivery", TRUE)
        deliveryFee == Configured("deliveryFee", 0)
        threshold == Configured("freeDeliveryThreshold", 0)
        free == threshold > 0 /\ subtotal >= threshold
        charged == serviceType = "delivery" /\ enabled
    IN  /\ (serviceType = "pickup" \/ ~enabled) => policyCall.server = 0
        /\ free => policyCall.server = 0
        /\ (charged /\ ~free) => policyCall.server = deliveryFee
        /\ (charged /\ threshold = 0) => policyCall.server = deliveryFee
        /\ policyCall.server \in {0, deliveryFee}
        /\ (charged /\ threshold = 50 /\ deliveryFee = 1) =>
             /\ subtotal = 60 => policyCall.server = 0
             /\ subtotal = 40 => policyCall.server = 1

\* A delivery order of exactly the threshold was free of a fee of 1 OMR.
C21_Witness ==
  /\ policyCall.fn = "calculateDeliveryFee"
  /\ policyCall.args = <<50, "delivery">>
  /\ Has(policyConfig)
  /\ Configured("enableDelivery", FALSE)
  /\ Configured("freeDeliveryThreshold", 0) = 50
  /\ Configured("deliveryFee", 0) = 1
  /\ policyCall.server = 0

\* C26: given the same complete configuration and the same arguments and
\* clock reading, calculateDeliveryFee, calculateTax, isStoreOpen and
\* getAvailableServices of lib/store-config return what the same-named
\* functions of the useStoreConfig hook return.
C26_ServerAndClientAgree ==
  (/\ policyCall.fn # ""
   /\ Has(policyConfig)
   /\ Complete(The(policyConfig))) =>
     policyCall.client = Returns(policyCall.server)

\* Both found a store closed one minute before 9:00 whose opening time was
\* typed as "9:00", under a complete configuration.
C26_Witness ==
  /\ policyCall.fn = "isStoreOpen"
  /\ Has(policyConfig)
  /\ Complete(The(policyConfig))
  /\ The(policyConfig).operatingHours.openTime = <<9, Colon, 0, 0>>
  /\ policyCall.args[1].currentTime = TimeString(8, 59)
  /\ policyCall.args[1].currentDay = "monday"
  /\ policyCall.server = FALSE
  /\ policyCall.client = Returns(FALSE)

\* A product document as the offer functions count it: its price in
\* 1/OfferUnit OMR.
AsOfferItem(product) == [product EXCEPT !.price = @ * 100]

\* The lines of an order at the effective price of their products at a
\* reading of the clock, in 1/OfferUnit OMR.
RECURSIVE SumEffective(_, _)
SumEffective(lines, clock) ==
  IF lines = <<>> THEN 0
  ELSE getEffectivePrice(AsOfferItem(Products[Head(lines).foodItem]), clock)
         * Head(lines).quantity
       + SumEffective(Tail(lines), clock)

\* A line of the order is of a product whose offer is active with positive
\* savings at that reading.
HasDiscountedLine(o, clock) ==
  \E i \in DOMAIN o.items :
    LET item == AsOfferItem(Products[o.items[i].foodItem])
    IN  /\ isOfferActive(item, clock)
        /\ getSavingsAmount(item, <<clock, clock>>) > 0

Submitted(body) ==
  [street |-> The(body.deliveryAddress).street,
   area |-> The(body.deliveryAddress).area,
   city |-> The(body.deliveryAddress).city]

\* The same members of a stored address.
Place(address) ==
  [street |-> The(address).street, area |-> The(address).area,
   city |-> The(address).city]

C25_ItemCountIsProductCount ==
  (\A c \in CategoryIds : hookPc[c] = "idle") =>
    \A c \in CategoryIds :
      itemCount[c] = Cardinality({p \in ProductSlots : productCategory[p] = c})

\* C27 (as claimed): in every interleaving with admin status updates, the
\* write of a customer cancel finds the order pending or confirmed at the
\* moment it is made.
C27_CancelNeverOverwritesLaterStatus ==
  [][\A c \in Cancels :
       cwrites'[c] # cwrites[c] /\ "orders.update" \in cwrites'[c] =>
         LET id == The(corder[c]).id
         IN  /\ orders'[id].status = "cancelled"
             /\ orders[id].status \in {"pending", "confirmed"}]_vars

\* C30 (as claimed): the lead-time rule does not apply to updates: the
\* update of a customer cancel that found its order pending or confirmed is
\* answered with success, and an admin update of an existing order to a
\* status of the collection is written, whatever the clock shows.
C30_LeadTimeOnlyAtCreation ==
  [][/\ \A c \in Cancels :
          (cpc[c] = "update" /\ cpc'[c] = "done") =>
            /\ cresponse'[c].status = 200
            /\ orders'[The(corder[c]).id].status = "cancelled"
     /\ \A p \in Patches :
          (/\ ppc[p] = "update" /\ ppc'[p] # "update"
           /\ The(pdata[p].orderId) \in DOMAIN orders
           /\ pdata[p].status \in OrderStatuses) =>
            /\ ppc'[p] = "history"
            /\ orders'[The(pdata[p].orderId)].status = pdata[p].status]_vars

\* C28 (as claimed): a getStoreConfig call that resumes from its store read
\* after clearConfigCache has run in between does not put the value it read
\* into the cache: the cache is left as it was.
C28_ClearNotUndoneByFetch ==
  [][\A g \in Gets :
       (gpc[g] = "assign" /\ gpc'[g] = "done" /\ gcleared[g]) =>
         /\ configCache' = configCache
         /\ cacheTimestamp' = cacheTimestamp]_vars

\* C29: a getStoreConfig call whose store read fails returns the built-in
\* default configuration and leaves configCache and cacheTimestamp as they
\* were, also when an expired value is cached.
C29_FailedReadLeavesCache ==
  [][\A g \in Gets :
       (gpc[g] = "read" /\ gpc'[g] = "done") =>
         /\ gresult'[g] = [config |-> Some(defaultConfig), from |-> "default"]
         /\ configCache' = configCache
         /\ cacheTimestamp' = cacheTimestamp
         /\ cacheFetchedAt' = cacheFetchedAt]_vars

\* A call that found an expired cached value returned the default
\* configuration after a failed read; the cache still holds the expired
\* value under its old timestamp.
C29_Witness ==
  \E g \in Gets :
    /\ gpc[g] = "done"
    /\ gresult[g].from = "default"
    /\ gresult[g].config = Some(defaultConfig)
    /\ Has(configCache)
    /\ configCache # Some(defaultConfig)
    /\ now - cacheTimestamp >= CACHE_DURATION

\* The normal form of an email: lower-cased and trimmed.
Normalized(email) == trim(toLowerCase(email))

\* C23 (as claimed): with the operations one after another, a checkout is
\* about to create a customer only when no record has the normal form of
\* its email, so that checkouts whose emails differ only in letter case or
\* surrounding blanks end with the same customer; and no two customer
\* records have the same normal form of the email.
C23_CustomerByNormalizedEmail ==
  /\ \A r \in Reqs :
       pc[r] = "createCustomer" =>
         \A i \in DOMAIN customers :
           Normalized(customers[i].email)
             # Normalized(The(data[r].customerInfo).email)
  /\ \A r, q \in Reqs :
       (/\ Succeeded(r) /\ Succeeded(q)
        /\ Normalized(The(data[r].customerInfo).email)
             = Normalized(The(data[q].customerInfo).email)) =>
         orders[order[r]].customer = orders[order[q]].customer
  /\ \A i, j \in DOMAIN customers :
       i # j => Normalized(customers[i].email) # Normalized(customers[j].email)

====
